---------------------------- MODULE Spec2Model ----------------------------
(***************************************************************************)
(* A model of the Vuex 3 store of this repository: the module tree        *)
(* (ModuleCollection / Module), the install walk that flattens it into     *)
(* the mutation, action and getter registries, the local contexts, and     *)
(* commit / dispatch with their subscribers.                               *)
(*                                                                         *)
(* Conventions.                                                            *)
(*  - A JavaScript string that is used as a type or a namespace is a       *)
(*    sequence of tokens ("a", "/", "inc", ...): concatenation is \o and   *)
(*    String.prototype.slice is SubSeq.  No token is a prefix of another.  *)
(*  - A JavaScript object whose key order matters (Object.keys) is a       *)
(*    sequence of entries in insertion order.                              *)
(*  - A function of the source is an operator from the store (a record of  *)
(*    the Store's fields) to the store after the call.  An exception that  *)
(*    is propagating is the field "thrown" (NoErr when there is none);     *)
(*    code that an exception skips is skipped by testing it.               *)
(*  - User code (mutation handlers, action handlers, getters, subscribers) *)
(*    is an input: a name with a fixed behaviour, see the "user code"      *)
(*    section.                                                             *)
(***************************************************************************)
EXTENDS Naturals, Sequences, FiniteSets, TLC

VARIABLES
  store,      \* the Store instance (its fields, the module tree, the vm) and
              \* the JavaScript run around it: the exception propagating, the
              \* promises of the dispatch calls, the scheduled continuations,
              \* and the log of the user code run by the current call
  env,        \* the build and the host: __DEV__, whether a global w exists,
              \* whether the error of a watcher callback is thrown on
  last,       \* the last call the application made, and how it ended
  ops         \* the number of calls the application has made

vars == <<store, env, last, ops>>

(***************************************************************************)
(* Bounds of the model.                                                    *)
(***************************************************************************)

NoErr == "none"

\* __DEV__, the build flag: TRUE in a development build
DEV == env.dev

\* whether the host defines a global named w (the repository defines none)
wDefined == env.w

\* whether an error of a watcher callback reaches the code that wrote the
\* state (Vue rethrows it outside a browser) or is only reported
watcherThrows == env.rethrow

(***************************************************************************)
(* Strings and paths.                                                      *)
(***************************************************************************)
\* path.slice(0, -1)
Butlast(s) == SubSeq(s, 1, Len(s) - 1)

\* path[path.length - 1]
Lastof(s) == s[Len(s)]

\* type.slice(0, n)
SliceTo(s, n) == SubSeq(s, 1, IF n < Len(s) THEN n ELSE Len(s))

\* type.slice(n)
SliceFrom(s, n) == SubSeq(s, n + 1, Len(s))

IsPrefix(p, q) == Len(p) <= Len(q) /\ SubSeq(q, 1, Len(p)) = p

\* Array.prototype.indexOf: the first index of x in s (1-based), 0 when absent
RECURSIVE indexOfFrom(_, _, _)
indexOfFrom(s, x, i) ==
  IF i > Len(s) THEN 0
  ELSE IF s[i] = x THEN i
  ELSE indexOfFrom(s, x, i + 1)

indexOf(s, x) == indexOfFrom(s, x, 1)

\* Array.prototype.splice(i, 1)
splice1(s, i) == SubSeq(s, 1, i - 1) \o SubSeq(s, i + 1, Len(s))

(***************************************************************************)
(* Declarations (raw modules), the input of the constructor, of            *)
(* registerModule and of hotUpdate.  An object of the declaration whose    *)
(* key order matters is a sequence of entries; an absent map is <<>> (the  *)
(* inputs hold no map that is present and empty).  The state is what the   *)
(* state initializer returns: a tree of objects, a function from the       *)
(* relative path of each object to its own fields.                         *)
(***************************************************************************)
Obj(name, count) == [name |-> name, count |-> count]

\* a state object with no nested object
Leaf(name, count) == (<<>> :> Obj(name, count))

Raw(namespaced, state, mutations, actions, getters, modules) ==
  [namespaced |-> namespaced, state |-> state, mutations |-> mutations,
   actions |-> actions, getters |-> getters, modules |-> modules]

\* one entry of a mutations or getters map
Fn(key, fn) == [key |-> key, fn |-> fn, root |-> FALSE]

\* one entry of an actions map: a bare callable, or {root, handler}
Act(key, fn, root) == [key |-> key, fn |-> fn, root |-> root]

\* one entry of a modules map
Sub(key, raw) == [key |-> key, raw |-> raw]

NotCallable == "notCallable"

(***************************************************************************)
(* Module                                                                  *)
(***************************************************************************)
\* new Module(rawModule, runtime); id is the identity of the new object
Module(rawModule, runtime, id) ==
  [id |-> id,
   runtime |-> runtime,
   children |-> <<>>,
   raw |-> [namespaced |-> rawModule.namespaced,
            mutations |-> rawModule.mutations,
            actions |-> rawModule.actions,
            getters |-> rawModule.getters],
   state |-> rawModule.state,
   context |-> [namespace |-> <<>>, path |-> <<>>, installed |-> FALSE]]

\* a Module.update that leaves the mutations as they were
ModuleUpdateSkipsMutations(module, rawModule) ==
  [module EXCEPT
     !.raw = [namespaced |-> rawModule.namespaced,
              actions |-> IF rawModule.actions # <<>>
                          THEN rawModule.actions ELSE @.actions,
              mutations |-> @.mutations,
              getters |-> IF rawModule.getters # <<>>
                          THEN rawModule.getters ELSE @.getters]]

\* Module.update(rawModule): namespaced always, the maps when given, never state
ModuleUpdate(module, rawModule) ==
  [module EXCEPT
     !.raw = [namespaced |-> rawModule.namespaced,
              actions |-> IF rawModule.actions # <<>>
                          THEN rawModule.actions ELSE @.actions,
              mutations |-> IF rawModule.mutations # <<>>
                            THEN rawModule.mutations ELSE @.mutations,
              getters |-> IF rawModule.getters # <<>>
                          THEN rawModule.getters ELSE @.getters]]

(***************************************************************************)
(* ModuleCollection: mods maps the path of every module of the tree to the *)
(* Module; the root is at <<>>.  nextId numbers the Module objects.        *)
(***************************************************************************)
Undefined == [kind |-> "undefined", path |-> <<>>]
TypeError == [kind |-> "TypeError", path |-> <<>>]
ModuleAt(p) == [kind |-> "module", path |-> p]

\* module.hasChild(key): key in this._children
hasChild(mc, p, key) == \E i \in 1..Len(mc.mods[p].children) : mc.mods[p].children[i] = key

\* module.getChild(key)
getChild(mc, p, key) == IF hasChild(mc, p, key) THEN ModuleAt(Append(p, key)) ELSE Undefined

\* ModuleCollection.get(path): reduce over the keys from the root; getChild
\* of undefined is a TypeError
RECURSIVE getFrom(_, _, _)
getFrom(mc, cur, rest) ==
  IF rest = <<>> THEN cur
  ELSE IF cur.kind # "module" THEN TypeError
  ELSE getFrom(mc, getChild(mc, cur.path, Head(rest)), Tail(rest))

get(mc, path) == getFrom(mc, ModuleAt(<<>>), path)

\* ModuleCollection.getNamespace(path): [ns, thrown]
RECURSIVE getNamespaceFrom(_, _, _, _)
getNamespaceFrom(mc, cur, rest, namespace) ==
  IF rest = <<>> THEN [ns |-> namespace, thrown |-> NoErr]
  ELSE LET module == getChild(mc, cur, Head(rest)) IN
       IF module.kind # "module" THEN [ns |-> namespace, thrown |-> "TypeError"]
       ELSE getNamespaceFrom(mc, module.path, Tail(rest),
              namespace \o (IF mc.mods[module.path].raw.namespaced
                            THEN <<Head(rest), "/">> ELSE <<>>))

\* a getNamespace that asks only the module at the end of the path
getNamespaceOwnKey(mc, path) ==
  [ns |-> IF path # <<>> /\ mc.mods[path].raw.namespaced
          THEN <<Lastof(path), "/">> ELSE <<>>,
   thrown |-> NoErr]

getNamespace(mc, path) == getNamespaceFrom(mc, <<>>, path, <<>>)

\* the paths strictly below p
Below(mc, p) == {q \in DOMAIN mc.mods : IsPrefix(p, q) /\ q # p}

Restrict(f, D) == [x \in D |-> f[x]]

\* parent.addChild(key, module): this._children[key] = module.  An existing
\* key keeps its place in the key order; the module that was there, and the
\* modules below it, are no longer in the tree.
addChild(mc, p, key, module) ==
  LET q == Append(p, key)
      kept == Restrict(mc.mods, DOMAIN mc.mods \ ({q} \cup Below(mc, q)))
      parent == IF hasChild(mc, p, key) THEN kept[p]
                ELSE [kept[p] EXCEPT !.children = Append(@, key)]
  IN [mc EXCEPT !.mods = (q :> module) @@ (p :> parent) @@ kept]

\* parent.removeChild(key): delete this._children[key]
removeChild(mc, p, key) ==
  LET q == Append(p, key)
      kept == Restrict(mc.mods, DOMAIN mc.mods \ ({q} \cup Below(mc, q)))
  IN [mc EXCEPT !.mods =
        [kept EXCEPT ![p].children = SelectSeq(@, LAMBDA k : k # key)]]

\* assertRawModule: every getter and mutation is callable, every action is
\* callable or an object with a callable handler
assertRawModule(rawModule) ==
  /\ \A i \in 1..Len(rawModule.getters) : rawModule.getters[i].fn # NotCallable
  /\ \A i \in 1..Len(rawModule.mutations) : rawModule.mutations[i].fn # NotCallable
  /\ \A i \in 1..Len(rawModule.actions) : rawModule.actions[i].fn # NotCallable

\* ModuleCollection.register(path, rawModule, runtime)
RECURSIVE register(_, _, _, _), registerEach(_, _, _, _)
register(mc, path, rawModule, runtime) ==
  IF DEV /\ ~assertRawModule(rawModule) THEN [mc EXCEPT !.thrown = "AssertionError"]
  ELSE
    LET newModule == Module(rawModule, runtime, mc.nextId)
        mc0 == [mc EXCEPT !.nextId = @ + 1]
        parent == get(mc0, Butlast(path))
        mc1 == IF path = <<>>
               THEN [mc0 EXCEPT !.mods = (<<>> :> newModule)]
               ELSE IF parent.kind # "module"
               THEN [mc0 EXCEPT !.thrown = "TypeError"]
               ELSE addChild(mc0, parent.path, Lastof(path), newModule)
    IN IF mc1.thrown # NoErr THEN mc1
       ELSE registerEach(mc1, path, rawModule.modules, runtime)

\* a loop over the nested modules that registers them as modules of the
\* constructor's declaration, whatever runtime is
RECURSIVE registerEachStatic(_, _, _, _)
registerEachStatic(mc, path, modules, runtime) ==
  IF modules = <<>> \/ mc.thrown # NoErr THEN mc
  ELSE registerEachStatic(
         register(mc, Append(path, Head(modules).key), Head(modules).raw, FALSE),
         path, Tail(modules), runtime)

\* forEachValue(rawModule.modules, ...): the nested modules, in key order
registerEach(mc, path, modules, runtime) ==
  IF modules = <<>> \/ mc.thrown # NoErr THEN mc
  ELSE registerEach(
         register(mc, Append(path, Head(modules).key), Head(modules).raw, runtime),
         path, Tail(modules), runtime)

\* new ModuleCollection(rawRootModule)
ModuleCollection(rawRootModule) ==
  register([mods |-> <<>>, nextId |-> 1, thrown |-> NoErr], <<>>, rawRootModule, FALSE)

\* an unregister that does not look at the runtime flag of the child
unregisterAny(mc, path) ==
  LET parent == get(mc, Butlast(path))
      key == Lastof(path)
  IN IF parent.kind # "module" THEN [mc EXCEPT !.thrown = "TypeError"]
     ELSE IF ~hasChild(mc, parent.path, key) THEN mc
     ELSE removeChild(mc, parent.path, key)

\* ModuleCollection.unregister(path)
unregister(mc, path) ==
  LET parent == get(mc, Butlast(path))
      key == Lastof(path)
  IN IF parent.kind # "module" THEN [mc EXCEPT !.thrown = "TypeError"]
     ELSE IF ~hasChild(mc, parent.path, key) THEN mc
     ELSE IF ~mc.mods[path].runtime THEN mc
     ELSE removeChild(mc, parent.path, key)

\* ModuleCollection.isRegistered(path): [value, thrown]
isRegistered(mc, path) ==
  LET parent == get(mc, Butlast(path)) IN
  IF parent.kind = "TypeError" THEN [value |-> FALSE, thrown |-> "TypeError"]
  ELSE IF parent.kind = "module"
  THEN [value |-> hasChild(mc, parent.path, Lastof(path)), thrown |-> NoErr]
  ELSE [value |-> FALSE, thrown |-> NoErr]

\* an update walk that passes over a key that names no child and goes on
\* with the keys after it
RECURSIVE updateEachGoesOn(_, _, _)
updateEachGoesOn(mc, path, modules) ==
  IF modules = <<>> \/ mc.thrown # NoErr THEN mc
  ELSE updateEachGoesOn(
         IF hasChild(mc, path, Head(modules).key)
         THEN [mc EXCEPT !.mods[Append(path, Head(modules).key)] =
                 ModuleUpdate(@, Head(modules).raw)]
         ELSE mc,
         path, Tail(modules))

\* an update walk that registers the module of a key that names no child
RECURSIVE updateEachAdds(_, _, _)
updateEachAdds(mc, path, modules) ==
  IF modules = <<>> \/ mc.thrown # NoErr THEN mc
  ELSE updateEachAdds(
         IF hasChild(mc, path, Head(modules).key)
         THEN [mc EXCEPT !.mods[Append(path, Head(modules).key)] =
                 ModuleUpdate(@, Head(modules).raw)]
         ELSE register(mc, Append(path, Head(modules).key), Head(modules).raw, TRUE),
         path, Tail(modules))

\* update(path, targetModule, newModule) of module-collection: the walk
\* returns from the whole call at the first key that names no child
RECURSIVE update(_, _, _), updateEach(_, _, _)
update(mc, path, newModule) ==
  IF DEV /\ ~assertRawModule(newModule) THEN [mc EXCEPT !.thrown = "AssertionError"]
  ELSE updateEach([mc EXCEPT !.mods[path] = ModuleUpdate(@, newModule)],
                  path, newModule.modules)

updateEach(mc, path, modules) ==
  IF modules = <<>> \/ mc.thrown # NoErr THEN mc
  ELSE IF ~hasChild(mc, path, Head(modules).key) THEN mc
  ELSE updateEach(update(mc, Append(path, Head(modules).key), Head(modules).raw),
                  path, Tail(modules))

(***************************************************************************)
(* JavaScript values: undefined, a number, an array of these.              *)
(***************************************************************************)
Undef == [kind |-> "undefined", n |-> 0, items |-> <<>>]
Num(n) == [kind |-> "number", n |-> n, items |-> <<>>]
Arr(items) == [kind |-> "array", n |-> 0, items |-> items]

\* a promise: pending, fulfilled with v, or rejected with err
Pending == [st |-> "pending", v |-> Undef, err |-> NoErr]
Fulfilled(v) == [st |-> "fulfilled", v |-> v, err |-> NoErr]
Rejected(err) == [st |-> "rejected", v |-> Undef, err |-> err]

(***************************************************************************)
(* The log of the current call: one event per call of user code and per    *)
(* write to the state, with the state and the committing flag at that time *)
(***************************************************************************)
Ev(S, ev, fn, type, payload, err) ==
  [ev |-> ev, fn |-> fn, type |-> type, payload |-> payload, err |-> err,
   state |-> S._vm.state, committing |-> S._committing]

Log(S, ev, fn, type, payload) ==
  [S EXCEPT !.log = Append(@, Ev(S, ev, fn, type, payload, NoErr))]

LogErr(S, ev, fn, type, payload, err) ==
  [S EXCEPT !.log = Append(@, Ev(S, ev, fn, type, payload, err))]

NoPayload == [hasType |-> FALSE, type |-> <<>>, data |-> "none"]

\* a positional payload
Payload(data) == [hasType |-> FALSE, type |-> <<>>, data |-> data]

\* an object-style argument {type, ...data}
ObjectStyle(type, data) == [hasType |-> TRUE, type |-> type, data |-> data]

\* an exception is propagating: the statements that follow are skipped
Throws(S) == S.thrown # NoErr

Throw(S, err) == [S EXCEPT !.thrown = err]

(***************************************************************************)
(* The state tree and the strict-mode watcher                              *)
(***************************************************************************)
\* a getNestedState that walks no key: the root state whatever the path
getNestedStateOfRoot(state, path) == [kind |-> "object", path |-> <<>>]

\* getNestedState(state, path): path.reduce((state, key) => state[key], state)
getNestedState(state, path) ==
  IF path \in DOMAIN state THEN [kind |-> "object", path |-> path]
  ELSE IF Butlast(path) \in DOMAIN state THEN [kind |-> "undefined", path |-> path]
  ELSE [kind |-> "TypeError", path |-> path]

\* a watcher callback that asserts nothing
strictWatcherSilent(S) == S

\* the callback of the watcher that enableStrictMode installs: the failed
\* assertion is the event "flagged"
strictWatcher(S) ==
  IF DEV /\ ~S._committing
  THEN LET S1 == Log(S, "flagged", "watcher", <<>>, NoPayload)
       IN IF watcherThrows THEN Throw(S1, "StrictModeError") ELSE S1
  ELSE S

\* a write to the observed state: the state changes, then the synchronous
\* deep watcher of enableStrictMode runs, if the vm has one
setState(S, newState, who) ==
  LET S1 == Log([S EXCEPT !._vm.state = newState], "write", who, <<>>, NoPayload)
  IN IF S1._vm.watch THEN strictWatcher(S1) ELSE S1

\* the state tree with the object at q, and all below it, removed
WithoutSubtree(state, q) ==
  Restrict(state, {r \in DOMAIN state : ~IsPrefix(q, r)})

\* Vue.set(parentState, key, moduleState)
VueSet(S, parent, key, moduleState, who) ==
  IF parent.kind # "object" THEN Throw(S, "TypeError")
  ELSE LET q == Append(parent.path, key)
           rest == WithoutSubtree(S._vm.state, q)
           sub == [r \in {q \o x : x \in DOMAIN moduleState} |->
                     moduleState[SliceFrom(r, Len(q))]]
       IN setState(S, sub @@ rest, who)

\* Vue.delete(parentState, key)
VueDelete(S, parent, key, who) ==
  IF parent.kind # "object" THEN Throw(S, "TypeError")
  ELSE IF Append(parent.path, key) \notin DOMAIN S._vm.state THEN S
  ELSE setState(S, WithoutSubtree(S._vm.state, Append(parent.path, key)), who)

\* the store as fn finds it when Store._withCommit(fn) calls it
Committing(S) == [S EXCEPT !._committing = TRUE]

\* Store._withCommit(fn), where S is the store at the call and S1 the store
\* that fn, called on Committing(S), left: the flag is put back to what it
\* was, unless fn threw (there is no finally)
_withCommit(S, S1) ==
  IF Throws(S1) THEN S1 ELSE [S1 EXCEPT !._committing = S._committing]

(***************************************************************************)
(* Call arguments.  A call of commit or dispatch is commit(type, payload,  *)
(* options) or, object-style, commit({type, ...data}, options).  A call is *)
(* the record [obj, type, payload, root]: whether the first argument is an *)
(* object with a type, the type (of the string or of the object), the      *)
(* payload (the second argument, or the object itself) and options.root.   *)
(***************************************************************************)
Call(type, data) ==
  [obj |-> FALSE, type |-> type, payload |-> Payload(data), root |-> FALSE]

CallRoot(type, data) ==
  [obj |-> FALSE, type |-> type, payload |-> Payload(data), root |-> TRUE]

CallObj(type, data) ==
  [obj |-> TRUE, type |-> type, payload |-> ObjectStyle(type, data), root |-> FALSE]

\* the call store.commit(type, payload, options) with a string type
Positional(type, payload, root) ==
  [obj |-> FALSE, type |-> type, payload |-> payload, root |-> root]

\* a unifyObjectStyle that hands on the fields beside `type` as payload
unifyObjectStyleRest(call) ==
  [type |-> IF call.obj THEN call.payload.type ELSE call.type,
   payload |-> IF call.obj THEN Payload(call.payload.data) ELSE call.payload,
   root |-> call.root]

\* unifyObjectStyle(type, payload, options): [type, payload, options]; an
\* object-style call hands the whole object on as the payload
unifyObjectStyle(call) ==
  [type |-> IF call.obj THEN call.payload.type ELSE call.type,
   payload |-> call.payload,
   root |-> call.root]

RetUndefined == [kind |-> "undefined", id |-> 0]
RetPromise(id) == [kind |-> "promise", id |-> id]

(***************************************************************************)
(* User code: the handlers, getters and subscribers that declarations and  *)
(* subscribe calls may name, each with a fixed behaviour.                  *)
(*   mutations   increment   state.count++                                 *)
(*               setName     state.name = payload                          *)
(*               boom        throws                                        *)
(*               later       setTimeout(() => state.count++)               *)
(*               nested      this.commit('increment')                      *)
(*   actions     incrementAsync   commit('increment'), returns undefined   *)
(*               one, two    return a promise that later resolves 1, 2     *)
(*               fail        returns a promise that later rejects          *)
(*               boom        throws                                        *)
(*               seven       returns 7, not a promise                      *)
(*               mutate      state.count++, returns undefined              *)
(*               refuse      returns Promise.reject(new Error())           *)
(*   getters     plus10, plus20   state.count + 10, state.count + 20       *)
(*   mutation subscribers   s1, s2 return; sBoom throws; sQuit calls its   *)
(*               own unsubscribe; sKick calls the unsubscribe of s1; sAdd  *)
(*               calls subscribe(s1); sCommit calls commit('increment')    *)
(*               for a mutation of any other type                          *)
(*   action subscribers     F is a function (a before hook); Obj has the   *)
(*               three hooks; After has an after hook only; Thrower has    *)
(*               the three hooks and throws in each; Quit, Kick and Add    *)
(*               have the three hooks, and in each Quit calls its own      *)
(*               unsubscribe, Kick the unsubscribe of Obj, and Add calls   *)
(*               subscribeAction(Obj)                                      *)
(***************************************************************************)
Increment == <<"increment">>

\* state.count++ on the object that local.state gave
countPlusPlus(S, st, who) ==
  IF st.kind # "object" THEN Throw(S, "TypeError")
  ELSE setState(S, [S._vm.state EXCEPT ![st.path].count = @ + 1], who)

RECURSIVE commit(_, _)
RECURSIVE dispatch(_, _)

\* the body of a user mutation handler: handler(state, payload)
mutationFn(S, fn, st, payload) ==
  CASE fn = "increment" -> countPlusPlus(S, st, "mutation")
    [] fn = "setName" ->
         IF st.kind # "object" THEN Throw(S, "TypeError")
         ELSE setState(S, [S._vm.state EXCEPT ![st.path].name = payload.data], "mutation")
    [] fn = "boom" -> Throw(S, "Boom")
    [] fn = "later" -> [S EXCEPT !.timers = Append(@, st.path)]
    [] fn = "nested" -> commit(S, Call(Increment, "none"))
    [] OTHER -> S

\* a local commit that adds no prefix
localCommitUnprefixed(S, local, call) == commit(S, call)

\* local.commit of makeLocalContext(store, namespace, path)
localCommit(S, local, call) ==
  IF local.namespace = <<>> THEN commit(S, call)
  ELSE LET args == unifyObjectStyle(call)
           type == IF ~args.root THEN local.namespace \o args.type ELSE args.type
       IN IF ~args.root /\ DEV /\ type \notin DOMAIN S._mutations THEN S
          ELSE commit(S, Positional(type, args.payload, args.root))

\* local.dispatch of makeLocalContext(store, namespace, path)
localDispatch(S, local, call) ==
  IF local.namespace = <<>> THEN dispatch(S, call)
  ELSE LET args == unifyObjectStyle(call)
           type == IF ~args.root THEN local.namespace \o args.type ELSE args.type
       IN IF ~args.root /\ DEV /\ type \notin DOMAIN S._actions
          THEN [S EXCEPT !.ret = RetUndefined]
          ELSE dispatch(S, Positional(type, args.payload, FALSE))

\* the body of a user action handler, handler(context, payload): the store
\* after its synchronous part, and the promise (or value) it returns
actionFn(S, fn, local, st, payload) ==
  CASE fn = "incrementAsync" ->
         [S |-> localCommit(S, local, Call(Increment, "none")), p |-> Fulfilled(Undef)]
    [] fn = "one" -> [S |-> S, p |-> Pending]
    [] fn = "two" -> [S |-> S, p |-> Pending]
    [] fn = "fail" -> [S |-> S, p |-> Pending]
    [] fn = "boom" -> [S |-> Throw(S, "Boom"), p |-> Pending]
    [] fn = "seven" -> [S |-> S, p |-> Fulfilled(Num(7))]
    [] fn = "mutate" -> [S |-> countPlusPlus(S, st, "action"), p |-> Fulfilled(Undef)]
    [] fn = "refuse" -> [S |-> S, p |-> Rejected("Failed")]
    [] OTHER -> [S |-> S, p |-> Fulfilled(Undef)]

\* whether the action handler returns and what it returns resolves
resolves(fn) == fn \notin {"fail", "boom", "refuse"}

\* what the promise of an asynchronous action handler settles to
settlement(fn) ==
  CASE fn = "one" -> Fulfilled(Num(1))
    [] fn = "two" -> Fulfilled(Num(2))
    [] OTHER -> Rejected("Failed")

\* the body of a user getter: rawGetter(localState, ...)
getterFn(fn, localState) ==
  CASE fn = "plus10" -> localState.count + 10
    [] OTHER -> localState.count + 20

(***************************************************************************)
(* The registries and the install walk                                     *)
(***************************************************************************)
\* what a wrapped handler or getter closes over: the user function, the
\* local context (namespace, path) and the module that declared it
Wrapped(fn, local, id) == [fn |-> fn, local |-> local, id |-> id]

\* store._mutations[type] || (store._mutations[type] = []), then push
pushEntry(registry, type, w) ==
  IF type \in DOMAIN registry
  THEN [registry EXCEPT ![type] = Append(@, w)]
  ELSE (type :> <<w>>) @@ registry

\* registerMutation(store, type, handler, local)
registerMutation(S, type, handler, local, id) ==
  [S EXCEPT !._mutations = pushEntry(@, type, Wrapped(handler, local, id))]

\* registerAction(store, type, handler, local)
registerAction(S, type, handler, local, id) ==
  [S EXCEPT !._actions = pushEntry(@, type, Wrapped(handler, local, id))]

\* a registerGetter that lets a later definition replace the one it has
registerGetterLastWins(S, type, rawGetter, local, id) ==
  [S EXCEPT !._wrappedGetters = (type :> Wrapped(rawGetter, local, id)) @@ @]

\* registerGetter(store, type, rawGetter, local): the first definition of a
\* type stays
registerGetter(S, type, rawGetter, local, id) ==
  IF type \in DOMAIN S._wrappedGetters THEN S
  ELSE [S EXCEPT !._wrappedGetters = (type :> Wrapped(rawGetter, local, id)) @@ @]

\* makeLocalContext(store, namespace, path)
makeLocalContext(namespace, path) ==
  [namespace |-> namespace, path |-> path, installed |-> TRUE]

\* makeLocalGetters(store, namespace): the proxy of the namespace, made from
\* the keys of store.getters on the first read and cached; the proxy is the
\* map from each localType to the type whose getter its property reads
makeLocalGetters(S, namespace) ==
  IF namespace \in DOMAIN S._makeLocalGettersCache THEN S
  ELSE LET splitPos == Len(namespace)
           types == {type \in S.getters : SliceTo(type, splitPos) = namespace}
           gettersProxy ==
             [localType \in {SliceFrom(type, splitPos) : type \in types} |->
                CHOOSE type \in types : SliceFrom(type, splitPos) = localType]
       IN [S EXCEPT !._makeLocalGettersCache = (namespace :> gettersProxy) @@ @]

\* reading local.getters
localGetters(S, local) ==
  IF local.namespace = <<>> THEN S ELSE makeLocalGetters(S, local.namespace)

RECURSIVE forEachMutation(_, _, _, _, _)
forEachMutation(S, entries, namespace, local, id) ==
  IF entries = <<>> THEN S
  ELSE forEachMutation(
         registerMutation(S, namespace \o Head(entries).key, Head(entries).fn, local, id),
         Tail(entries), namespace, local, id)

RECURSIVE forEachAction(_, _, _, _, _)
forEachAction(S, entries, namespace, local, id) ==
  IF entries = <<>> THEN S
  ELSE forEachAction(
         registerAction(S,
           IF Head(entries).root THEN Head(entries).key
           ELSE namespace \o Head(entries).key,
           Head(entries).fn, local, id),
         Tail(entries), namespace, local, id)

RECURSIVE forEachGetter(_, _, _, _, _)
forEachGetter(S, entries, namespace, local, id) ==
  IF entries = <<>> THEN S
  ELSE forEachGetter(
         registerGetter(S, namespace \o Head(entries).key, Head(entries).fn, local, id),
         Tail(entries), namespace, local, id)

\* installModule(store, rootState, path, module, hot); rootState is the
\* state of the vm (in the constructor: the root module's state, which the
\* vm is then made of)
RECURSIVE installModule(_, _, _)
RECURSIVE forEachChild(_, _, _, _)
installModule(S, path, hot) ==
  LET module == S._modules.mods[path]
      nsr == getNamespace(S._modules, path)
      namespace == nsr.ns
      S1 == IF module.raw.namespaced
            THEN [S EXCEPT !._modulesNamespaceMap = (namespace :> module.id) @@ @]
            ELSE S
      parentState == getNestedState(S1._vm.state, Butlast(path))
      S2 == IF path # <<>> /\ ~hot
            THEN IF parentState.kind = "TypeError" THEN Throw(S1, "TypeError")
                 ELSE _withCommit(S1, VueSet(Committing(S1), parentState,
                                             Lastof(path), module.state, "install"))
            ELSE S1
      local == makeLocalContext(namespace, path)
      S3 == [S2 EXCEPT !._modules.mods[path].context = local]
      S4 == forEachMutation(S3, module.raw.mutations, namespace, local, module.id)
      S5 == forEachAction(S4, module.raw.actions, namespace, local, module.id)
      S6 == forEachGetter(S5, module.raw.getters, namespace, local, module.id)
  IN IF nsr.thrown # NoErr THEN Throw(S, nsr.thrown)
     ELSE IF S2.thrown # NoErr THEN S2
     ELSE forEachChild(S6, path, module.children, hot)

forEachChild(S, path, keys, hot) ==
  IF keys = <<>> \/ S.thrown # NoErr THEN S
  ELSE forEachChild(installModule(S, Append(path, Head(keys)), hot), path, Tail(keys), hot)

\* a resetStoreVM that keeps the local getters cache
resetStoreVMKeepsCache(S, hot) ==
  LET S1 == [S EXCEPT !.getters = DOMAIN S._wrappedGetters,
                      !._vm = [state |-> S._vm.state,
                               computed |-> S._wrappedGetters,
                               watch |-> S.strict]]
  IN IF hot THEN _withCommit(S1, Committing(S1)) ELSE S1

\* resetStoreVM(store, state, hot): store.getters and the computed
\* properties of the new vm are made of the wrapped getters of this moment;
\* the local getters cache is emptied; the strict watcher is installed
resetStoreVM(S, hot) ==
  LET S1 == [S EXCEPT !.getters = DOMAIN S._wrappedGetters,
                      !._makeLocalGettersCache = <<>>,
                      !._vm = [state |-> S._vm.state,
                               computed |-> S._wrappedGetters,
                               watch |-> S.strict]]
  IN IF hot THEN _withCommit(S1, Committing(S1)) ELSE S1

\* a resetStore whose install walk grafts the declared states again
resetStoreRegrafts(S, hot) ==
  LET S1 == [S EXCEPT !._actions = <<>>, !._mutations = <<>>,
                      !._wrappedGetters = <<>>, !._modulesNamespaceMap = <<>>]
      S2 == installModule(S1, <<>>, FALSE)
  IN IF Throws(S2) THEN S2 ELSE resetStoreVM(S2, hot)

\* resetStore(store, hot)
resetStore(S, hot) ==
  LET S1 == [S EXCEPT !._actions = <<>>, !._mutations = <<>>,
                      !._wrappedGetters = <<>>, !._modulesNamespaceMap = <<>>]
      S2 == installModule(S1, <<>>, TRUE)
  IN IF Throws(S2) THEN S2 ELSE resetStoreVM(S2, hot)

(***************************************************************************)
(* Store                                                                   *)
(***************************************************************************)
\* new Store(options): options is the root declaration and strict
Store(options, strict) ==
  LET mc == ModuleCollection(options)
      S0 == [_committing |-> FALSE,
             _actions |-> <<>>,
             _actionSubscribers |-> <<>>,
             _mutations |-> <<>>,
             _wrappedGetters |-> <<>>,
             _modules |-> mc,
             _modulesNamespaceMap |-> <<>>,
             _subscribers |-> <<>>,
             _makeLocalGettersCache |-> <<>>,
             strict |-> strict,
             getters |-> {},
             _vm |-> [state |-> IF mc.thrown = NoErr THEN mc.mods[<<>>].state
                                ELSE Leaf("none", 0),
                      computed |-> <<>>,
                      watch |-> FALSE],
             thrown |-> mc.thrown,
             ret |-> RetUndefined,
             log |-> <<>>,
             timers |-> <<>>,
             dispatches |-> <<>>,
             closures |-> {},
             nextObj |-> 1]
      S1 == IF Throws(S0) THEN S0 ELSE installModule(S0, <<>>, FALSE)
  IN IF Throws(S1) THEN S1 ELSE resetStoreVM(S1, FALSE)

\* store.getters[type]: the computed property of the vm calls the wrapped
\* getter, which reads local.state and calls the raw getter
readGetter(S, type) ==
  IF type \notin S.getters THEN [kind |-> "undefined", n |-> 0]
  ELSE LET w == S._vm.computed[type]
           st == getNestedState(S._vm.state, w.local.path)
       IN IF st.kind # "object" THEN [kind |-> "TypeError", n |-> 0]
          ELSE [kind |-> "number", n |-> getterFn(w.fn, S._vm.state[st.path])]

\* wrappedMutationHandler(payload): handler.call(store, local.state, payload)
wrappedMutationHandler(S, w, payload) ==
  LET st == getNestedState(S._vm.state, w.local.path) IN
  IF st.kind = "TypeError" THEN Throw(S, "TypeError")
  ELSE mutationFn(Log(S, "mutation", w.fn, w.local.path, payload), w.fn, st, payload)

\* a loop over the handlers that catches what each one throws
RECURSIVE commitIteratorSwallows(_, _, _)
commitIteratorSwallows(S, entry, payload) ==
  IF entry = <<>> THEN S
  ELSE commitIteratorSwallows(
         [wrappedMutationHandler(S, Head(entry), payload) EXCEPT !.thrown = NoErr],
         Tail(entry), payload)

\* entry.forEach(handler => handler(payload))
RECURSIVE commitIterator(_, _, _)
commitIterator(S, entry, payload) ==
  IF entry = <<>> \/ S.thrown # NoErr THEN S
  ELSE commitIterator(wrappedMutationHandler(S, Head(entry), payload), Tail(entry), payload)

\* genericSubscribe(fn, subs, options): the new list
genericSubscribe(fn, subs, prepend) ==
  IF indexOf(subs, fn) < 1
  THEN IF prepend THEN <<fn>> \o subs ELSE Append(subs, fn)
  ELSE subs

\* an unsubscribe without the guard i > -1: splice(-1, 1) takes the last
unsubscribeUnguarded(fn, subs) ==
  LET i == indexOf(subs, fn) IN
  IF i > 0 THEN splice1(subs, i) ELSE Butlast(subs)

\* the function that genericSubscribe returned: the new list
unsubscribe(fn, subs) ==
  LET i == indexOf(subs, fn) IN
  IF i > 0 THEN splice1(subs, i) ELSE subs

\* Store.subscribe(fn, options)
subscribe(S, fn, prepend) ==
  [S EXCEPT !._subscribers = genericSubscribe(fn, @, prepend),
            !.closures = @ \cup {[list |-> "subscribe", fn |-> fn, id |-> 0]}]

\* Store.subscribeAction(fn, options): a function is wrapped in a new
\* object {before: fn}
subscribeAction(S, fn, prepend) ==
  LET subs == IF fn = "F" THEN [fn |-> fn, id |-> S.nextObj] ELSE [fn |-> fn, id |-> 0]
  IN [S EXCEPT !._actionSubscribers = genericSubscribe(subs, @, prepend),
               !.closures = @ \cup {[list |-> "subscribeAction", fn |-> fn, id |-> subs.id]},
               !.nextObj = IF fn = "F" THEN @ + 1 ELSE @]

\* an unsubscribe of an action subscriber that drops the dispatches that
\* are pending
callUnsubscribeCancels(S, c) ==
  IF c.list = "subscribe"
  THEN [S EXCEPT !._subscribers = unsubscribe(c.fn, @)]
  ELSE [S EXCEPT !._actionSubscribers = unsubscribe([fn |-> c.fn, id |-> c.id], @),
                 !.dispatches = SelectSeq(@, LAMBDA d : d.promise.st # "pending")]

\* calling the function that subscribe or subscribeAction returned
callUnsubscribe(S, c) ==
  IF c.list = "subscribe"
  THEN [S EXCEPT !._subscribers = unsubscribe(c.fn, @)]
  ELSE [S EXCEPT !._actionSubscribers = unsubscribe([fn |-> c.fn, id |-> c.id], @)]

\* the body of a mutation subscriber: sub(mutation, state)
subscriberFn(S, sub, type, payload) ==
  LET S1 == Log(S, "sub", sub, type, payload) IN
  CASE sub = "sBoom" -> Throw(S1, "SubscriberError")
    [] sub = "sQuit" -> [S1 EXCEPT !._subscribers = unsubscribe("sQuit", @)]
    [] sub = "sKick" -> [S1 EXCEPT !._subscribers = unsubscribe("s1", @)]
    [] sub = "sAdd" -> subscribe(S1, "s1", FALSE)
    [] sub = "sCommit" -> IF type = Increment THEN S1
                          ELSE commit(S1, Call(Increment, "none"))
    [] OTHER -> S1

\* a round over the live list: forEach visits the indices that the list had
\* when the round started and reads each element when it comes to it
RECURSIVE notifyLiveFrom(_, _, _, _, _)
notifyLiveFrom(S, i, n, type, payload) ==
  IF i > n \/ S.thrown # NoErr THEN S
  ELSE notifyLiveFrom(
         IF i <= Len(S._subscribers)
         THEN subscriberFn(S, S._subscribers[i], type, payload) ELSE S,
         i + 1, n, type, payload)

notifySubscribersLive(S, subs, type, payload) ==
  notifyLiveFrom(S, 1, Len(subs), type, payload)

\* this._subscribers.slice().forEach(sub => sub(mutation, this.state))
RECURSIVE notifySubscribers(_, _, _, _)
notifySubscribers(S, subs, type, payload) ==
  IF subs = <<>> \/ S.thrown # NoErr THEN S
  ELSE notifySubscribers(subscriberFn(S, Head(subs), type, payload),
                         Tail(subs), type, payload)

\* a commit that notifies the subscribers before the handlers have run
commitNotifiesFirst(S, call) ==
  LET args == unifyObjectStyle(call)
      type == args.type
      payload == args.payload
  IN IF type \notin DOMAIN S._mutations THEN S
     ELSE LET entry == S._mutations[type]
              S1 == notifySubscribers(S, S._subscribers, type, payload)
          IN IF Throws(S1) THEN S1
             ELSE _withCommit(S1, commitIterator(Committing(S1), entry, payload))

\* a commit that notifies the subscribers of a type that has no handler
commitUnknownNotifies(S, call) ==
  LET args == unifyObjectStyle(call)
      entry == IF args.type \in DOMAIN S._mutations THEN S._mutations[args.type] ELSE <<>>
      S1 == _withCommit(S, commitIterator(Committing(S), entry, args.payload))
  IN IF Throws(S1) THEN S1
     ELSE notifySubscribers(S1, S1._subscribers, args.type, args.payload)

\* Store.commit(_type, _payload, _options)
commit(S, call) ==
  LET args == unifyObjectStyle(call)
      type == args.type
      payload == args.payload
  IN IF type \notin DOMAIN S._mutations THEN S
     ELSE LET entry == S._mutations[type]
              S1 == _withCommit(S, commitIterator(Committing(S), entry, payload))
          IN IF Throws(S1) THEN S1
             ELSE notifySubscribers(S1, S1._subscribers, type, payload)

\* the hooks an action subscriber object has
hasHook(sub, hook) ==
  CASE sub.fn = "F" -> hook = "before"
    [] sub.fn = "After" -> hook = "after"
    [] OTHER -> TRUE

\* the body of a hook of an action subscriber
actionSubscriberFn(S, sub, hook, type, payload, err) ==
  LET S1 == LogErr(S, hook, sub.fn, type, payload, err) IN
  CASE sub.fn = "Thrower" -> Throw(S1, "SubscriberError")
    [] sub.fn = "Quit" -> [S1 EXCEPT !._actionSubscribers = unsubscribe(sub, @)]
    [] sub.fn = "Kick" ->
         [S1 EXCEPT !._actionSubscribers = unsubscribe([fn |-> "Obj", id |-> 0], @)]
    [] sub.fn = "Add" -> subscribeAction(S1, "Obj", FALSE)
    [] OTHER -> S1

\* subs.filter(sub => sub[hook]).forEach(sub => sub[hook](action, state, error))
RECURSIVE forEachHook(_, _, _, _, _, _)
forEachHook(S, subs, hook, type, payload, err) ==
  IF subs = <<>> \/ S.thrown # NoErr THEN S
  ELSE forEachHook(
         IF hasHook(Head(subs), hook)
         THEN actionSubscriberFn(S, Head(subs), hook, type, payload, err) ELSE S,
         Tail(subs), hook, type, payload, err)

\* a notification round without the try/catch around it
tryActionSubscribersUncaught(S, hook, type, payload, err) ==
  forEachHook(S, S._actionSubscribers, hook, type, payload, err)

\* try { ...forEach... } catch (e) { console.warn; console.error }
tryActionSubscribers(S, hook, type, payload, err) ==
  [forEachHook(S, S._actionSubscribers, hook, type, payload, err) EXCEPT !.thrown = NoErr]

\* wrappedActionHandler(payload): the context reads local.getters and
\* local.state, the handler runs, and its result is made a promise
wrappedActionHandler(S, w, payload) ==
  LET S1 == localGetters(S, w.local)
      st == getNestedState(S1._vm.state, w.local.path)
  IN IF st.kind = "TypeError" THEN [S |-> Throw(S1, "TypeError"), p |-> Pending]
     ELSE actionFn(Log(S1, "action", w.fn, w.local.path, payload), w.fn, w.local, st, payload)

\* entry.map(handler => handler(payload)): [S, ps]
RECURSIVE mapHandlers(_, _, _, _)
mapHandlers(S, entry, payload, ps) ==
  IF entry = <<>> \/ S.thrown # NoErr THEN [S |-> S, ps |-> ps]
  ELSE LET r == wrappedActionHandler(S, Head(entry), payload)
       IN mapHandlers(r.S, Tail(entry), payload, Append(ps, r.p))

\* the promise `result` of dispatch, from the promises of the handlers:
\* the promise of the only handler, or Promise.all of them, which keeps the
\* first rejection it has seen
resultOf(hs, result, settled) ==
  IF Len(hs) = 1 THEN hs[1]
  ELSE IF result.st # "pending" THEN result
  ELSE IF settled.st = "rejected" THEN settled
  ELSE IF \A i \in 1..Len(hs) : hs[i].st = "fulfilled"
  THEN Fulfilled(Arr([i \in 1..Len(hs) |-> [kind |-> hs[i].v.kind, n |-> hs[i].v.n]]))
  ELSE Pending

\* Store.dispatch(_type, _payload)
dispatch(S, call) ==
  LET args == unifyObjectStyle(call)
      type == args.type
      payload == args.payload
  IN IF type \notin DOMAIN S._actions THEN [S EXCEPT !.ret = RetUndefined]
     ELSE IF ~wDefined THEN Throw(S, "ReferenceError")
     ELSE
       LET entry == S._actions[type]
           S1 == tryActionSubscribers(S, "before", type, payload, NoErr)
           r == mapHandlers(S1, entry, payload, <<>>)
           d == [type |-> type, payload |-> payload,
                 fns |-> [i \in 1..Len(entry) |-> entry[i].fn],
                 hs |-> r.ps,
                 result |-> resultOf(r.ps, Pending, Pending),
                 promise |-> Pending,
                 order |-> <<>>,
                 log |-> <<>>]
       IN IF r.S.thrown # NoErr THEN r.S
          ELSE [r.S EXCEPT !.dispatches = Append(@, d),
                           !.ret = RetPromise(Len(r.S.dispatches) + 1)]

\* the continuation of dispatch on the promise `result`: the after (or
\* error) subscribers of this moment run, then the promise that dispatch
\* returned is resolved (or rejected)
react(S, k) ==
  LET d == S.dispatches[k]
      hook == IF d.result.st = "fulfilled" THEN "after" ELSE "error"
      S1 == tryActionSubscribers(S, hook, d.type, d.payload, d.result.err)
  IN [S1 EXCEPT !.dispatches[k].promise = d.result,
                !.dispatches[k].log = S1.log]

\* the promise of handler i of dispatch k settles
settle(S, k, i) ==
  LET d == S.dispatches[k]
      p == settlement(d.fns[i])
      hs == [d.hs EXCEPT ![i] = p]
  IN [S EXCEPT !.dispatches[k].hs = hs,
               !.dispatches[k].order = Append(@, i),
               !.dispatches[k].result = resultOf(hs, d.result, p)]

\* the continuation that the mutation handler "later" scheduled runs
runTimer(S, k) ==
  LET path == S.timers[k]
      S1 == [S EXCEPT !.timers = splice1(@, k)]
  IN IF path \in DOMAIN S1._vm.state
     THEN countPlusPlus(S1, getNestedState(S1._vm.state, path), "timer")
     ELSE S1

\* Store.replaceState(state)
replaceState(S, state) ==
  _withCommit(S, setState(Committing(S), state, "replaceState"))

\* Store.registerModule(path, rawModule, options)
registerModule(S, path, rawModule, preserveState) ==
  LET mc == register(S._modules, path, rawModule, TRUE)
      S1 == [S EXCEPT !._modules = [mc EXCEPT !.thrown = NoErr], !.thrown = mc.thrown]
      S2 == IF Throws(S1) THEN S1 ELSE installModule(S1, path, preserveState)
  IN IF Throws(S2) THEN S2 ELSE resetStoreVM(S2, FALSE)

\* Store.unregisterModule(path)
unregisterModule(S, path) ==
  LET mc == unregister(S._modules, path)
      S1 == [S EXCEPT !._modules = [mc EXCEPT !.thrown = NoErr], !.thrown = mc.thrown]
      parentState == getNestedState(S1._vm.state, Butlast(path))
      S2 == IF Throws(S1) THEN S1
            ELSE IF parentState.kind = "TypeError" THEN Throw(Committing(S1), "TypeError")
            ELSE _withCommit(S1, VueDelete(Committing(S1), parentState, Lastof(path),
                                           "unregisterModule"))
  IN IF Throws(S2) THEN S2 ELSE resetStore(S2, FALSE)

\* Store.hasModule(path)
hasModule(S, path) == isRegistered(S._modules, path)

\* Store.hotUpdate(newOptions)
hotUpdate(S, newOptions) ==
  LET mc == update(S._modules, <<>>, newOptions)
      S1 == [S EXCEPT !._modules = [mc EXCEPT !.thrown = NoErr], !.thrown = mc.thrown]
  IN IF Throws(S1) THEN S1 ELSE resetStore(S1, TRUE)

(***************************************************************************)
(* The application: declarations it gives, and the calls it makes          *)
(***************************************************************************)
\* a non-namespaced module that declares, under the root's own types,
\* second mutation handlers (for increment; for boom one that returns; for
\* risky one that throws), second action handlers (for get, and for fail
\* one that resolves) and a second getter
DeclM ==
  Raw(FALSE, Leaf("m", 0),
      <<Fn(Increment, "increment"), Fn(<<"boom">>, "increment"),
        Fn(<<"risky">>, "boom")>>,
      <<Act(<<"get">>, "two", FALSE), Act(<<"fail">>, "one", FALSE)>>,
      <<Fn(<<"count">>, "plus20")>>, <<>>)

\* the namespaced counter module of the end-to-end example, with two more
\* actions: mutate, which writes the state it is given, and rootSeven,
\* declared as {root: true, handler}
DeclCounter ==
  Raw(TRUE, Leaf("counter", 0),
      <<Fn(Increment, "increment"), Fn(<<"setName">>, "setName")>>,
      <<Act(<<"incrementAsync">>, "incrementAsync", FALSE),
        Act(<<"mutate">>, "mutate", FALSE), Act(<<"rootSeven">>, "seven", TRUE)>>,
      <<Fn(<<"count">>, "plus10")>>, <<>>)

DeclRoot ==
  Raw(FALSE, Leaf("root", 0),
      <<Fn(Increment, "increment"), Fn(<<"setName">>, "setName"),
        Fn(<<"later">>, "later"), Fn(<<"boom">>, "boom"),
        Fn(<<"nested">>, "nested"), Fn(<<"risky">>, "increment")>>,
      <<Act(<<"get">>, "one", FALSE), Act(<<"seven">>, "seven", FALSE),
        Act(<<"fail">>, "fail", FALSE), Act(<<"boom">>, "boom", FALSE),
        Act(<<"mutate">>, "mutate", FALSE), Act(<<"refuse">>, "refuse", FALSE)>>,
      <<Fn(<<"count">>, "plus10")>>,
      <<Sub("m", DeclM), Sub("counter", DeclCounter)>>)

\* the start of a call of the application: nothing is propagating, the log
\* of the call is empty
Begin(S) == [S EXCEPT !.thrown = NoErr, !.log = <<>>, !.ret = RetUndefined]

NoCall == Call(<<>>, "none")

Called(S, op, call, path) ==
  /\ store' = S
  /\ last' = [op |-> op, call |-> call, path |-> path]
  /\ ops' = ops + 1
  /\ UNCHANGED env

Start(options, strict, dev, w, rethrow) ==
  /\ env = [dev |-> dev, w |-> w, rethrow |-> rethrow]
  /\ store = Store(options, strict)
  /\ last = [op |-> "new", call |-> NoCall, path |-> <<>>]
  /\ ops = 0

Commit(call) == Called(commit(Begin(store), call), "commit", call, <<>>)

Dispatch(call) == Called(dispatch(Begin(store), call), "dispatch", call, <<>>)

Subscribe(fn, prepend) ==
  Called(subscribe(Begin(store), fn, prepend),
         IF prepend THEN "subscribePrepend" ELSE "subscribe", Call(<<fn>>, "none"), <<>>)

Unsubscribe(c) ==
  Called(callUnsubscribe(Begin(store), c),
         IF c.list = "subscribe" THEN "unsubscribe" ELSE "unsubscribeAction",
         Call(<<c.fn>>, "none"), <<c.id>>)

SubscribeAction(fn, prepend) ==
  Called(subscribeAction(Begin(store), fn, prepend),
         IF prepend THEN "subscribeActionPrepend" ELSE "subscribeAction",
         Call(<<fn>>, "none"), <<>>)

\* the promise of handler i of dispatch k settles
Settle(k, i) ==
  /\ store.dispatches[k].hs[i].st = "pending"
  /\ Called(settle(Begin(store), k, i), "settle", NoCall, <<k, i>>)

\* the reaction of dispatch k to its settled promise `result` runs
React(k) ==
  /\ store.dispatches[k].result.st # "pending"
  /\ store.dispatches[k].promise.st = "pending"
  /\ Called(react(Begin(store), k), "react", NoCall, <<k>>)

RunTimer(k) == Called(runTimer(Begin(store), k), "runTimer", NoCall, <<k>>)

\* the application writes to an object of store.state itself: state.count++
Write(path) ==
  /\ path \in DOMAIN store._vm.state
  /\ Called(countPlusPlus(Begin(store), getNestedState(store._vm.state, path), "app"),
            "write", NoCall, path)

ReplaceState(state) ==
  Called(replaceState(Begin(store), state), "replaceState", NoCall, <<>>)

RegisterModule(path, rawModule, preserveState) ==
  Called(registerModule(Begin(store), path, rawModule, preserveState),
         IF preserveState THEN "registerModulePreserve" ELSE "registerModule",
         NoCall, path)

UnregisterModule(path) ==
  Called(unregisterModule(Begin(store), path), "unregisterModule", NoCall, path)

\* code that holds the local context of the module at path (a handler of
\* the module, or a continuation of one) calls its commit / its dispatch
LocalCommit(path, call) ==
  /\ path \in DOMAIN store._modules.mods
  /\ Called(localCommit(Begin(store), store._modules.mods[path].context, call),
            "localCommit", call, path)

LocalDispatch(path, call) ==
  /\ path \in DOMAIN store._modules.mods
  /\ Called(localDispatch(Begin(store), store._modules.mods[path].context, call),
            "localDispatch", call, path)

\* store.hasModule(path): the call returns true or false, or throws
HasModule(path) ==
  LET r == hasModule(store, path) IN
  Called([Begin(store) EXCEPT !.thrown = r.thrown,
                              !.ret = [kind |-> IF r.thrown # NoErr THEN "undefined"
                                                ELSE IF r.value THEN "true" ELSE "false",
                                       id |-> 0]],
         "hasModule", NoCall, path)

\* the declaration given is kept as the argument of the call
HotUpdate(newOptions) ==
  Called(hotUpdate(Begin(store), newOptions), "hotUpdate", Call(<<>>, newOptions), <<>>)

(***************************************************************************)
(* SpecCommit: commits and mutation subscribers on the store of DeclRoot   *)
(***************************************************************************)
MaxOpsCommit == 4

CommitTypes ==
  {Increment, <<"counter", "/", "increment">>, <<"setName">>, <<"boom">>, <<"risky">>,
   <<"nope">>}

InitCommit ==
  \E dev \in BOOLEAN, strict \in BOOLEAN : Start(DeclRoot, strict, dev, TRUE, TRUE)

NextCommit ==
  /\ ops < MaxOpsCommit
  /\ \/ \E type \in CommitTypes : Commit(Call(type, "p"))
     \/ \E fn \in {"s1", "s2", "sBoom"}, prepend \in BOOLEAN : Subscribe(fn, prepend)
     \/ \E c \in store.closures : Unsubscribe(c)

SpecCommit == InitCommit /\ [][NextCommit]_vars

\* the calls of user code that the log of the current call holds
UserCalls(kinds) == SelectSeq(store.log, LAMBDA e : e.ev \in kinds)

\* C1: a commit on a type with k >= 1 registered handlers that returns has
\* invoked the k handlers once each, in registration order and inside the
\* committing scope, and after the last of them the mutation subscribers,
\* in subscription order, each with {type, payload} and the state as the
\* handlers left it.
C1_CommitOrder ==
  (last.op = "commit" /\ store.thrown = NoErr
     /\ last.call.type \in DOMAIN store._mutations) =>
    LET entry == store._mutations[last.call.type]
        subs == store._subscribers
        calls == UserCalls({"mutation", "sub"})
        k == Len(entry)
    IN /\ Len(calls) = k + Len(subs)
       /\ \A i \in 1..k :
            /\ calls[i].ev = "mutation"
            /\ calls[i].fn = entry[i].fn
            /\ calls[i].type = entry[i].local.path
            /\ calls[i].payload = last.call.payload
            /\ calls[i].committing
       /\ \A j \in 1..Len(subs) :
            /\ calls[k + j].ev = "sub"
            /\ calls[k + j].fn = subs[j]
            /\ calls[k + j].type = last.call.type
            /\ calls[k + j].payload = last.call.payload
            /\ calls[k + j].state = store._vm.state

\* C1's case: a commit on a type with two handlers, with two subscribers,
\* that changed the state
C1_Witness ==
  /\ last.op = "commit" /\ store.thrown = NoErr
  /\ last.call.type = Increment
  /\ Len(store._mutations[Increment]) = 2
  /\ store._subscribers = <<"s2", "s1">>
  /\ Len(UserCalls({"mutation", "sub"})) = 4
  /\ store._vm.state[<<>>].count = 1 /\ store._vm.state[<<"m">>].count = 1
  /\ UserCalls({"mutation"})[1].state[<<>>].count = 0

(***************************************************************************)
(* SpecStrict: writes to the state from every place that can write, with   *)
(* and without strict mode, in a development and in a production build     *)
(***************************************************************************)
MaxOpsStrict == 4

\* a module registered at run time
DeclX ==
  Raw(FALSE, Leaf("x", 0), <<Fn(<<"incX">>, "increment")>>, <<>>, <<>>, <<>>)

\* a state of the shape of the current one, to hand to replaceState
Replacement == [p \in DOMAIN store._vm.state |-> Obj("replaced", 1)]

InitStrict ==
  \E dev \in BOOLEAN, strict \in BOOLEAN, rethrow \in BOOLEAN :
    Start(DeclRoot, strict, dev, TRUE, rethrow)

NextStrict ==
  /\ ops < MaxOpsStrict
  /\ \/ \E type \in {Increment, <<"later">>, <<"boom">>, <<"nested">>,
                      <<"counter", "/", "increment">>} :
          Commit(Call(type, "p"))
     \/ Subscribe("s1", FALSE)
     \/ \E type \in {<<"mutate">>, <<"counter", "/", "mutate">>} :
          Dispatch(Call(type, "p"))
     \/ \E k \in 1..Len(store.timers) : RunTimer(k)
     \/ \E path \in {<<>>, <<"counter">>} : Write(path)
     \/ ReplaceState(Replacement)
     \/ RegisterModule(<<"x">>, DeclX, FALSE)
     \/ UnregisterModule(<<"x">>)

SpecStrict == InitStrict /\ [][NextStrict]_vars

\* the write that event i of the log records was flagged by the watcher
Flagged(i) == i < Len(store.log) /\ store.log[i + 1].ev = "flagged"

\* who wrote: event i is a write made by one of these
WrittenBy(i, who) == store.log[i].ev = "write" /\ store.log[i].fn \in who

\* event i of this log is a write made by one of these
WrittenIn(log, i, who) == log[i].ev = "write" /\ log[i].fn \in who

\* every write is flagged exactly when the committing flag was false, and
\* no write of a mutation handler, of grafting or of replaceState is flagged
StrictDiscipline ==
  \A i \in 1..Len(store.log) :
    store.log[i].ev = "write" =>
      /\ Flagged(i) <=> ~store.log[i].committing
      /\ WrittenBy(i, {"mutation", "install", "replaceState"}) => ~Flagged(i)

MaxOpsDispatch == 5

DispatchTypes == {<<"get">>, <<"seven">>, <<"fail">>, <<"boom">>, <<"nope">>}

InitDispatch == \E w \in BOOLEAN : Start(DeclRoot, FALSE, TRUE, w, TRUE)

NextDispatch ==
  /\ ops < MaxOpsDispatch
  /\ \/ \E type \in DispatchTypes : Dispatch(Call(type, "p"))
     \/ \E k \in 1..Len(store.dispatches) :
          \E i \in 1..Len(store.dispatches[k].hs) : Settle(k, i)
     \/ \E k \in 1..Len(store.dispatches) : React(k)
     \/ \E fn \in {"Obj", "Thrower"}, prepend \in BOOLEAN : SubscribeAction(fn, prepend)

SpecDispatch == InitDispatch /\ [][NextDispatch]_vars

\* the call just made is a dispatch on a type that has handlers
DispatchedRegistered ==
  last.op = "dispatch" /\ last.call.type \in DOMAIN store._actions

\* every handler of the type returns, and what it returns resolves
HandlersResolve(type) ==
  \A i \in 1..Len(store._actions[type]) : resolves(store._actions[type][i].fn)

\* the value that dispatch d is to resolve to, from its handlers' values
Aggregate(d) ==
  IF Len(d.hs) >= 2
  THEN Arr([i \in 1..Len(d.hs) |-> [kind |-> d.hs[i].v.kind, n |-> d.hs[i].v.n]])
  ELSE d.hs[1].v

\* C3: a dispatch on a type whose handlers resolve returns a promise, and
\* once the handlers have resolved and dispatch has reacted that promise is
\* resolved to the list of their values in registration order when there
\* are two or more, and to the value of the only handler when there is one.
C3_DispatchAggregates ==
  /\ (DispatchedRegistered /\ HandlersResolve(last.call.type)) =>
       store.thrown = NoErr /\ store.ret.kind = "promise"
  /\ \A k \in 1..Len(store.dispatches) :
       LET d == store.dispatches[k] IN
       ((\A i \in 1..Len(d.hs) : d.hs[i].st = "fulfilled") /\ d.promise.st # "pending")
         => d.promise = Fulfilled(Aggregate(d))

\* what of C3 the code keeps: the aggregation, in a host that defines w
C3_AggregatesWhereWDefined == wDefined => C3_DispatchAggregates

\* two handlers that settled in the reverse of their registration order
C3_Reached ==
  /\ last.op = "react" /\ Len(store.dispatches) = 1
  /\ store.dispatches[1].type = <<"get">>
  /\ store.dispatches[1].order = <<2, 1>>
  /\ store.dispatches[1].promise.st = "fulfilled"
  /\ store.dispatches[1].promise.v.items[1].n = 1
  /\ store.dispatches[1].promise.v.items[2].n = 2

\* the error subscribers of the dispatch that has just reacted were all
\* called, in order, with its action, and with the error of its handler
ErrorSubscribersNotified(d) ==
  LET subs == SelectSeq(store._actionSubscribers, LAMBDA s : hasHook(s, "error"))
      calls == UserCalls({"error"})
  IN /\ Len(calls) = Len(subs)
     /\ \A j \in 1..Len(subs) :
          /\ calls[j].fn = subs[j].fn
          /\ calls[j].type = d.type /\ calls[j].payload = d.payload
          /\ calls[j].err = d.result.err
          /\ calls[j].state = store._vm.state

\* the dispatch that has just reacted to the failure of a handler
ReactedToFailure ==
  /\ last.op = "react"
  /\ store.dispatches[last.path[1]].result.st = "rejected"

\* C4: when a handler of a dispatched action fails, by a rejected promise or
\* by throwing, dispatch returns a promise (it does not throw), that promise
\* is rejected with the handler's error, and every error subscriber has been
\* called with (action, state, error) when it is, whatever a subscriber threw.
C4_ActionFailure ==
  /\ DispatchedRegistered => store.thrown = NoErr /\ store.ret.kind = "promise"
  /\ ReactedToFailure =>
       LET d == store.dispatches[last.path[1]] IN
       /\ d.promise = Rejected(settlement(d.fns[1]).err)
       /\ ErrorSubscribersNotified(d)

\* C3's failure: a dispatch on a type with two resolving handlers threw
\* before it called any of them
C3_DispatchThrew ==
  /\ DispatchedRegistered /\ last.call.type = <<"get">>
  /\ store.thrown = "ReferenceError"
  /\ UserCalls({"action"}) = <<>>

\* C4's failure: the first error subscriber threw and the second one was
\* not called, though the promise was rejected with the handler's error
C4_SubscriberSkipped ==
  /\ ReactedToFailure
  /\ Len(store._actionSubscribers) = 2
  /\ store._actionSubscribers[1].fn = "Thrower"
  /\ store._actionSubscribers[2].fn = "Obj"
  /\ Len(UserCalls({"error"})) = 1
  /\ store.dispatches[last.path[1]].promise = Rejected("Failed")

(***************************************************************************)
(* SpecLocal: code that holds the local context of the namespaced module   *)
(* counter calls local.commit and local.dispatch, with and without         *)
(* {root: true}, while subscribers come and promises settle                *)
(***************************************************************************)
MaxOpsLocal == 4

LocalCalls(types) ==
  {Call(t, "v") : t \in types} \cup {CallRoot(t, "v") : t \in types}

InitLocal ==
  \E dev \in BOOLEAN, w \in BOOLEAN : Start(DeclRoot, FALSE, dev, w, TRUE)

NextLocal ==
  /\ ops < MaxOpsLocal
  /\ \/ \E call \in LocalCalls({Increment, <<"setName">>, <<"later">>, <<"nope">>}) :
          LocalCommit(<<"counter">>, call)
     \/ \E call \in LocalCalls({<<"incrementAsync">>, <<"seven">>, <<"get">>, <<"nope">>}) :
          LocalDispatch(<<"counter">>, call)
     \/ \E type \in {Increment, <<"nope">>} : Commit(Call(type, "v"))
     \/ \E type \in {<<"seven">>, <<"nope">>, <<"rootSeven">>, <<"incrementAsync">>,
                      <<"counter", "/", "rootSeven">>,
                      <<"counter", "/", "incrementAsync">>} :
          Dispatch(Call(type, "v"))
     \/ Subscribe("s1", FALSE)
     \/ SubscribeAction("Obj", FALSE)
     \/ \E k \in 1..Len(store.dispatches) : React(k)

SpecLocal == InitLocal /\ [][NextLocal]_vars

\* the call store.commit(type, v) or store.dispatch(type, v) that the local
\* call just made is to be equal to: the namespace of the module is put
\* before the type unless the options say root
GlobalCall(ns, call) ==
  Positional(IF call.root THEN call.type ELSE ns \o call.type, call.payload, FALSE)

\* C5: for a module with a non-empty namespace ns, local.commit(t, v) leaves
\* the store as store.commit(ns + t, v) does and local.dispatch(t, v) as
\* store.dispatch(ns + t, v) does (handlers run, state, notifications,
\* result); with {root: true} as store.commit(t, v) and store.dispatch(t, v).
C5_LocalIsNamespacedGlobal ==
  [][LET ns == getNamespace(store._modules, last'.path).ns IN
     /\ (last'.op = "localCommit" /\ ns # <<>>) =>
          store' = commit(Begin(store), GlobalCall(ns, last'.call))
     /\ (last'.op = "localDispatch" /\ ns # <<>>) =>
          store' = dispatch(Begin(store), GlobalCall(ns, last'.call))]_vars

\* C5's case: local.commit("increment") of counter ran the handler of
\* counter/increment, not the root's, and the subscriber saw the global type
C5_Witness ==
  /\ last.op = "localCommit" /\ last.path = <<"counter">>
  /\ last.call = Call(Increment, "v")
  /\ store._vm.state[<<"counter">>].count = 1
  /\ store._vm.state[<<>>].count = 0
  /\ \E i \in 1..Len(store.log) :
       /\ store.log[i].ev = "sub"
       /\ store.log[i].type = <<"counter", "/", "increment">>

\* the type under which the call of the step looks up its handlers
GlobalType ==
  IF last'.op \in {"localCommit", "localDispatch"}
  THEN GlobalCall(getNamespace(store._modules, last'.path).ns, last'.call).type
  ELSE last'.call.type

\* C11: commit or local commit of a type with no registered mutation leaves
\* the state tree as it was, runs no handler and notifies no mutation
\* subscriber; dispatch or local dispatch of a type with no registered
\* action returns undefined, runs no handler and calls no action subscriber;
\* neither raises an error.
C11_UnknownTypeIsNoOp ==
  [][/\ (last'.op \in {"commit", "localCommit"}
           /\ GlobalType \notin DOMAIN store._mutations) =>
          /\ store'._vm.state = store._vm.state
          /\ store'.log = <<>>
          /\ store'.thrown = NoErr
          /\ store' = Begin(store)
     /\ (last'.op \in {"dispatch", "localDispatch"}
           /\ GlobalType \notin DOMAIN store._actions) =>
          /\ store'.ret = RetUndefined
          /\ store'.log = <<>>
          /\ store'.thrown = NoErr
          /\ store'.dispatches = store.dispatches
          /\ store' = Begin(store)]_vars

\* C11's case: in a production build and a host without w, with an action
\* subscriber and a mutation subscriber, the module counter dispatched nope
\* through its local context, and nothing ran
C11_Witness ==
  /\ last.op = "localDispatch" /\ last.call = Call(<<"nope">>, "v")
  /\ ~DEV /\ ~wDefined
  /\ <<"counter", "/", "nope">> \notin DOMAIN store._actions
  /\ Len(store._actionSubscribers) = 1 /\ Len(store._subscribers) = 1
  /\ store.ret = RetUndefined /\ store.thrown = NoErr /\ store.log = <<>>

(***************************************************************************)
(* SpecTree: modules are registered and unregistered at run time, at the   *)
(* root, under the modules m and counter of the constructor's declaration  *)
(* and in the place of m, and the modules of that declaration are          *)
(* unregistered too; a hotUpdate replaces the getters of counter, and an   *)
(* action of counter reads its local getters                               *)
(***************************************************************************)
MaxOpsTree == 4

\* a module whose getter count is a second definition of the root's count
DeclG ==
  Raw(FALSE, Leaf("g", 0),
      <<Fn(<<"incG">>, "increment")>>, <<>>,
      <<Fn(<<"count">>, "plus20"), Fn(<<"fresh">>, "plus20")>>, <<>>)

InitTree == \E dev \in BOOLEAN : Start(DeclRoot, FALSE, dev, TRUE, TRUE)

\* a declaration for hotUpdate that gives counter another getter map
DeclHotGetters ==
  Raw(FALSE, Leaf("hot", 5), <<>>, <<>>, <<>>,
      <<Sub("counter", Raw(TRUE, Leaf("hot", 5), <<>>, <<>>,
                           <<Fn(<<"double">>, "plus20")>>, <<>>))>>)

NextTree ==
  /\ ops < MaxOpsTree
  /\ \/ \E path \in {<<"x">>, <<"m", "x">>}, decl \in {DeclX, DeclG} :
          RegisterModule(path, decl, FALSE)
     \/ RegisterModule(<<"x">>, DeclX, TRUE)
     \/ RegisterModule(<<"counter", "x">>, DeclG, FALSE)
     \/ RegisterModule(<<"m">>, DeclX, FALSE)
     \/ \E path \in {<<"x">>, <<"m">>, <<"m", "x">>, <<"counter">>, <<"counter", "x">>} :
          UnregisterModule(path)
     \/ HotUpdate(DeclHotGetters)
     \/ Commit(Call(Increment, "p"))
     \/ Dispatch(Call(<<"counter", "/", "incrementAsync">>, "p"))

SpecTree == InitTree /\ [][NextTree]_vars

\* the module that path names has a parent in the tree
ParentRegistered(S, path) == get(S._modules, Butlast(path)).kind = "module"

\* C6: registerModule(p, decl) on a path whose parent is registered makes
\* hasModule(p) true and puts the module's state under p's last key in the
\* parent state; an unregisterModule(p) that follows it at once makes
\* hasModule(p) false and removes the key from the parent state.
C6_RegisterUnregister ==
  [][/\ (last'.op = "registerModule" /\ ParentRegistered(store, last'.path)) =>
          /\ hasModule(store', last'.path).value
          /\ last'.path \in DOMAIN store'._vm.state
          /\ store'._vm.state[last'.path] = store'._modules.mods[last'.path].state[<<>>]
     /\ (/\ last.op = "registerModule" /\ last'.op = "unregisterModule"
         /\ last'.path = last.path /\ ParentRegistered(store, last.path)) =>
          /\ ~hasModule(store', last'.path).value
          /\ last'.path \notin DOMAIN store'._vm.state]_vars

\* what of C6 the code keeps: the round trip where the state of the parent
\* is in the state tree when registerModule is called
C6_WhereParentStateExists ==
  [][/\ (/\ last'.op = "registerModule" /\ ParentRegistered(store, last'.path)
         /\ Butlast(last'.path) \in DOMAIN store._vm.state) =>
          /\ hasModule(store', last'.path).value
          /\ last'.path \in DOMAIN store'._vm.state
          /\ store'._vm.state[last'.path] = store'._modules.mods[last'.path].state[<<>>]
     /\ (/\ last.op = "registerModule" /\ last'.op = "unregisterModule"
         /\ last'.path = last.path /\ last.path \in DOMAIN store._vm.state) =>
          /\ ~hasModule(store', last'.path).value
          /\ last'.path \notin DOMAIN store'._vm.state]_vars

\* C6's failure: the module was put in the tree under a registered parent,
\* registerModule threw, and the state of the module is nowhere
C6_RegisteredWithoutState ==
  /\ last.op = "registerModule" /\ last.path = <<"m", "x">>
  /\ store.thrown = "TypeError"
  /\ hasModule(store, <<"m">>).value
  /\ hasModule(store, <<"m", "x">>).value
  /\ <<"m", "x">> \notin DOMAIN store._vm.state

\* the step is unregisterModule on a module of the tree whose runtime flag
\* is false
UnregistersStatic ==
  /\ last'.op = "unregisterModule"
  /\ last'.path \in DOMAIN store._modules.mods
  /\ ~store._modules.mods[last'.path].runtime

\* every type of the registry under which the module id has a handler
TypesOf(registry, id) ==
  {type \in DOMAIN registry : \E i \in 1..Len(registry[type]) : registry[type][i].id = id}

\* the handlers and getters of the module id are under the same types in T
\* as in S
StillReachable(S, T, id) ==
  /\ TypesOf(S._mutations, id) = TypesOf(T._mutations, id)
  /\ TypesOf(S._actions, id) = TypesOf(T._actions, id)
  /\ {type \in DOMAIN S._wrappedGetters : S._wrappedGetters[type].id = id}
       = {type \in DOMAIN T._wrappedGetters : T._wrappedGetters[type].id = id}

\* C7: unregisterModule(p) on a module whose runtime flag is false leaves
\* the module registered, its state under its key in the parent state, and
\* its mutations, actions and getters under the same types.
C7_StaticUnregisterIsNoOp ==
  [][UnregistersStatic =>
       /\ hasModule(store', last'.path).value
       /\ store'._vm.state = store._vm.state
       /\ StillReachable(store, store', store._modules.mods[last'.path].id)]_vars

\* what of C7 the code keeps: the module stays in the tree and its handlers
\* and getters stay in the registries
C7_StaysRegistered ==
  [][UnregistersStatic =>
       /\ hasModule(store', last'.path).value
       /\ StillReachable(store, store', store._modules.mods[last'.path].id)]_vars

\* C7's failure: the module m of the constructor's declaration is still
\* registered after unregisterModule, and its state is gone
C7_StateDeleted ==
  /\ last.op = "unregisterModule" /\ last.path = <<"m">>
  /\ store.thrown = NoErr
  /\ hasModule(store, <<"m">>).value
  /\ ~store._modules.mods[<<"m">>].runtime
  /\ <<"m">> \notin DOMAIN store._vm.state

\* the step is a registerModule, with or without preserveState
RegistersModule == last'.op \in {"registerModule", "registerModulePreserve"}

\* C9: a getter registered under a key that the getter registry already has
\* is rejected: after the constructor the key count, declared by the root
\* and again by its module m, is served by the root's definition, and a
\* registerModule leaves every key of the registry with the definition it
\* had, which is the one store.getters[key] evaluates.
C9_FirstGetterWins ==
  /\ [](last.op = "new" =>
          /\ store._wrappedGetters[<<"count">>] =
               Wrapped("plus10", makeLocalContext(<<>>, <<>>), 1)
          /\ readGetter(store, <<"count">>).n = store._vm.state[<<>>].count + 10)
  /\ [][RegistersModule =>
          \A type \in DOMAIN store._wrappedGetters :
            /\ store'._wrappedGetters[type] = store._wrappedGetters[type]
            /\ store'.thrown = NoErr =>
                 /\ type \in store'.getters
                 /\ store'._vm.computed[type] = store._wrappedGetters[type]]_vars

\* C9's case: a module that declares count again, and fresh, was registered
\* at run time; count is still the root's and fresh is the new module's
C9_Witness ==
  /\ last.op = "registerModule" /\ last.path = <<"x">> /\ store.thrown = NoErr
  /\ \E i \in 1..Len(store._modules.mods[<<"x">>].raw.getters) :
       store._modules.mods[<<"x">>].raw.getters[i] = Fn(<<"count">>, "plus20")
  /\ store._wrappedGetters[<<"count">>].id = 1
  /\ readGetter(store, <<"count">>).n = store._vm.state[<<>>].count + 10
  /\ store._wrappedGetters[<<"fresh">>].id = store._modules.mods[<<"x">>].id
  /\ readGetter(store, <<"fresh">>).n = 20

(***************************************************************************)
(* SpecNamespace: stores of a chain of modules root / a / b / c with every *)
(* combination of namespaced flags, to which modules (one of them with a   *)
(* nested module) are added and from which they are removed at run time,   *)
(* whose flags a hotUpdate changes, and on which paths are looked up       *)
(***************************************************************************)
MaxOpsNamespace == 3

\* a module that declares one mutation, inc
DeclN(name, namespaced, modules) ==
  Raw(namespaced, Leaf(name, 0), <<Fn(<<"inc">>, "increment")>>, <<>>, <<>>, modules)

DeclChain(fr, fa, fb, fc) ==
  DeclN("root", fr,
    <<Sub("a", DeclN("a", fa,
        <<Sub("b", DeclN("b", fb,
            <<Sub("c", DeclN("c", fc, <<>>))>>))>>))>>)

\* paths that are looked up: of a module, and with a segment that names no
\* module at the last, at the second and at the first position
LookupPaths ==
  {<<"a", "b", "c">>, <<"a", "b", "z">>, <<"a", "z", "c">>, <<"z", "b", "c">>,
   <<"z", "d">>, <<"z">>, <<"d">>}

InitNamespace ==
  \E fr \in BOOLEAN, fa \in BOOLEAN, fb \in BOOLEAN, fc \in BOOLEAN :
    Start(DeclChain(fr, fa, fb, fc), FALSE, TRUE, TRUE, TRUE)

NextNamespace ==
  /\ ops < MaxOpsNamespace
  /\ \/ \E path \in {<<"d">>, <<"a", "d">>, <<"a", "b", "d">>}, f \in BOOLEAN :
          RegisterModule(path, DeclN("d", f, <<>>), FALSE)
     \/ \E path \in {<<"d">>, <<"a", "b">>} :
          RegisterModule(path, DeclN("d", TRUE, <<Sub("e", DeclN("e", FALSE, <<>>))>>),
                         FALSE)
     \/ \E path \in {<<"d">>, <<"a", "d">>, <<"a", "b", "d">>} : UnregisterModule(path)
     \/ HotUpdate(DeclChain(FALSE, TRUE, FALSE, TRUE))
     \/ \E path \in LookupPaths : HasModule(path)

SpecNamespace == InitNamespace /\ [][NextNamespace]_vars

\* key + "/" for the nodes of the path whose own flag is set, from the root
\* to the node
RECURSIVE NamespacedKeys(_, _)
NamespacedKeys(mc, path) ==
  IF path = <<>> THEN <<>>
  ELSE NamespacedKeys(mc, Butlast(path))
         \o (IF mc.mods[path].raw.namespaced THEN <<Lastof(path), "/">> ELSE <<>>)

\* C8: for every path of registered modules getNamespace is the
\* concatenation, from the root to the node, of key + "/" for exactly the
\* nodes of the path whose own namespaced flag is true, and the empty
\* string for the empty path.
C8_NamespaceConcatenation ==
  /\ getNamespace(store._modules, <<>>) = [ns |-> <<>>, thrown |-> NoErr]
  /\ \A path \in DOMAIN store._modules.mods :
       getNamespace(store._modules, path) =
         [ns |-> NamespacedKeys(store._modules, path), thrown |-> NoErr]

\* C8's case: under a namespaced a and a non-namespaced b, the namespaced
\* module d has the namespace a/d/, and its mutation is a/d/inc
C8_Witness ==
  /\ last.op = "registerModule" /\ last.path = <<"a", "b", "d">>
  /\ store._modules.mods[<<"a">>].raw.namespaced
  /\ ~store._modules.mods[<<"a", "b">>].raw.namespaced
  /\ store._modules.mods[<<"a", "b", "d">>].raw.namespaced
  /\ getNamespace(store._modules, <<"a", "b", "d">>).ns = <<"a", "/", "d", "/">>
  /\ <<"a", "/", "d", "/", "inc">> \in DOMAIN store._mutations

(***************************************************************************)
(* SpecCounter: the store of the end-to-end example, a root with the       *)
(* namespaced module counter, on which counter/incrementAsync is           *)
(* dispatched again and again                                              *)
(***************************************************************************)
MaxOpsCounter == 4

DeclCounterRoot ==
  Raw(FALSE, Leaf("root", 0), <<>>, <<>>, <<>>, <<Sub("counter", DeclCounter)>>)

IncrementAsync == <<"counter", "/", "incrementAsync">>

InitCounter ==
  \E dev \in BOOLEAN, strict \in BOOLEAN, w \in BOOLEAN :
    Start(DeclCounterRoot, strict, dev, w, TRUE)

NextCounter ==
  /\ ops < MaxOpsCounter
  /\ \/ Dispatch(Call(IncrementAsync, "none"))
     \/ \E k \in 1..Len(store.dispatches) : React(k)
     \/ Commit(Call(<<"counter", "/", "increment">>, "none"))
     \/ \E fn \in {"Obj", "After"} : SubscribeAction(fn, FALSE)

SpecCounter == InitCounter /\ [][NextCounter]_vars

\* C10: on the store of the example every dispatch("counter/incrementAsync")
\* returns a promise that resolves, and leaves state.counter.count one
\* higher than it found it (at 1 the first time).
C10_IncrementAsync ==
  [][/\ (last'.op = "dispatch" /\ last'.call.type = IncrementAsync) =>
          /\ store'.thrown = NoErr /\ store'.ret.kind = "promise"
          /\ store'.dispatches[store'.ret.id].result = Fulfilled(Undef)
          /\ store'._vm.state[<<"counter">>].count = store._vm.state[<<"counter">>].count + 1
     /\ last'.op = "react" =>
          store'.dispatches[last'.path[1]].promise = Fulfilled(Undef)]_vars

\* what of C10 the code keeps: the same, in a host that defines w
C10_WhereWDefined ==
  [][wDefined =>
      /\ (last'.op = "dispatch" /\ last'.call.type = IncrementAsync) =>
           /\ store'.thrown = NoErr /\ store'.ret.kind = "promise"
           /\ store'.dispatches[store'.ret.id].result = Fulfilled(Undef)
           /\ store'._vm.state[<<"counter">>].count = store._vm.state[<<"counter">>].count + 1
      /\ last'.op = "react" =>
           store'.dispatches[last'.path[1]].promise = Fulfilled(Undef)]_vars

\* C10's failure: the first dispatch threw, returned no promise, and the
\* count is still 0
C10_DispatchThrew ==
  /\ last.op = "dispatch" /\ last.call.type = IncrementAsync /\ ops = 1
  /\ store.thrown = "ReferenceError"
  /\ store.dispatches = <<>>
  /\ store._vm.state[<<"counter">>].count = 0

(***************************************************************************)
(* SpecSubscribe: mutation subscribers and action subscribers (a function  *)
(* F, an object Obj) are subscribed, again and again, at either end of the *)
(* list, and unsubscribed, and commits and dispatches notify them          *)
(***************************************************************************)
MaxOpsSubscribe == 4

InitSubscribe == \E w \in BOOLEAN : Start(DeclRoot, FALSE, TRUE, w, TRUE)

NextSubscribe ==
  /\ ops < MaxOpsSubscribe
  /\ \/ \E fn \in {"s1", "s2"}, prepend \in BOOLEAN : Subscribe(fn, prepend)
     \/ \E fn \in {"F", "Obj"}, prepend \in BOOLEAN : SubscribeAction(fn, prepend)
     \/ \E c \in store.closures : Unsubscribe(c)
     \/ Commit(Call(Increment, "p"))
     \/ Dispatch(Call(<<"seven">>, "p"))

SpecSubscribe == InitSubscribe /\ [][NextSubscribe]_vars

\* how many of the events of the current call are calls of fn as ev
TimesCalled(ev, fn) ==
  Cardinality({i \in 1..Len(store.log) : store.log[i].ev = ev /\ store.log[i].fn = fn})

\* the mutation subscriber list holds no function twice, and a commit has
\* called every function of it once
SubscribedOnce ==
  /\ \A i, j \in 1..Len(store._subscribers) :
       store._subscribers[i] = store._subscribers[j] => i = j
  /\ (last.op = "commit" /\ last.call.type \in DOMAIN store._mutations) =>
       \A i \in 1..Len(store._subscribers) :
         TimesCalled("sub", store._subscribers[i]) = 1

\* the action subscriber list holds no function (and no object) twice, and
\* a dispatch has called every function of it once
ActionSubscribedOnce ==
  /\ \A i, j \in 1..Len(store._actionSubscribers) :
       store._actionSubscribers[i].fn = store._actionSubscribers[j].fn => i = j
  /\ (last.op = "dispatch" /\ last.call.type \in DOMAIN store._actions) =>
       \A i \in 1..Len(store._actionSubscribers) :
         TimesCalled("before", store._actionSubscribers[i].fn) = 1

\* C12: a function subscribed twice, through subscribe or through
\* subscribeAction, has exactly one entry in the subscriber list, and is
\* called once per commit (once per dispatch), not twice.
C12_SubscribedOnce == SubscribedOnce /\ ActionSubscribedOnce

\* what of C12 the code keeps: subscribe, and subscribeAction of an object,
\* in a host that defines w
C12_SubscribeKeepsOne ==
  /\ SubscribedOnce
  /\ \A i, j \in 1..Len(store._actionSubscribers) :
       store._actionSubscribers[i] = store._actionSubscribers[j] => i = j
  /\ (wDefined /\ last.op = "dispatch" /\ last.call.type \in DOMAIN store._actions) =>
       TimesCalled("before", "Obj") <= 1

\* C12's failure: the function F was given to subscribeAction twice, the
\* list holds two objects for it, and one dispatch called it twice
C12_CalledTwice ==
  /\ last.op = "dispatch" /\ store.thrown = NoErr
  /\ Len(store._actionSubscribers) = 2
  /\ store._actionSubscribers[1].fn = "F" /\ store._actionSubscribers[2].fn = "F"
  /\ store._actionSubscribers[1] # store._actionSubscribers[2]
  /\ TimesCalled("before", "F") = 2

\* the list old after subscribing the entry e at the end or at the front:
\* an entry that the list has stays where it is
Subscribed(old, e, prepend) ==
  IF \E i \in 1..Len(old) : old[i] = e THEN old
  ELSE IF prepend THEN <<e>> \o old ELSE Append(old, e)

\* the list old without the entry e, the others in their order
Without(old, e) == SelectSeq(old, LAMBDA x : x # e)

\* the entry that the subscribeAction of the step has made of its argument
NewEntry ==
  [fn |-> last'.call.type[1],
   id |-> IF last'.call.type[1] = "F" THEN store.nextObj ELSE 0]

FreshWalk(S) ==
  installModule([S EXCEPT !._actions = <<>>, !._mutations = <<>>,
                          !._wrappedGetters = <<>>, !._modulesNamespaceMap = <<>>],
                <<>>, TRUE)

\* the registries r and f hold the same wrapped handlers under every type
SameHandlers(r, f) ==
  /\ DOMAIN r = DOMAIN f
  /\ \A type \in DOMAIN r :
       /\ Len(r[type]) = Len(f[type])
       /\ \A i \in 1..Len(r[type]) : \E j \in 1..Len(f[type]) : r[type][i] = f[type][j]
       /\ \A j \in 1..Len(f[type]) : \E i \in 1..Len(r[type]) : r[type][i] = f[type][j]

\* the mutation and action registries of S are those of a fresh install
\* walk of its tree, and the getter registry has the keys of one
HandlersMatchTree(S) ==
  /\ SameHandlers(S._mutations, FreshWalk(S)._mutations)
  /\ SameHandlers(S._actions, FreshWalk(S)._actions)
  /\ DOMAIN S._wrappedGetters = DOMAIN FreshWalk(S)._wrappedGetters

\* the registries of S are those of a fresh install walk of its tree
MatchesTree(S) ==
  /\ HandlersMatchTree(S)
  /\ S._wrappedGetters = FreshWalk(S)._wrappedGetters

\* the call just made is a registerModule or an unregisterModule that returned
ChangedTree ==
  /\ last.op \in {"registerModule", "registerModulePreserve", "unregisterModule"}
  /\ store.thrown = NoErr

\* C14: after every registerModule and every unregisterModule the mutation,
\* action and getter registries are those that a fresh install walk of the
\* current module tree produces: one wrapped handler for each declared
\* mutation or action of a module of the tree, and no handler of a module
\* that is no longer in the tree.
C14_RegistriesMatchTree == ChangedTree => MatchesTree(store)

\* what of C14 the code keeps: the registries match the tree after every
\* unregisterModule, and the handlers and the getter keys still do after a
\* registerModule on a path that was free (of two definitions of one getter
\* key the registry keeps the one registered first, the walk the one
\* nearer to the root)
C14_WhereNothingReplaced ==
  [][/\ (last'.op = "unregisterModule" /\ store'.thrown = NoErr) => MatchesTree(store')
     /\ (/\ RegistersModule /\ store'.thrown = NoErr
         /\ last'.path \notin DOMAIN store._modules.mods
         /\ HandlersMatchTree(store)) => HandlersMatchTree(store')]_vars

\* C14's failure: x was registered with the declaration of incX and then
\* again with the declaration of incG; the tree holds the second module
\* only, and the handler of the first is still under incX
C14_StaleHandler ==
  /\ last.op = "registerModule" /\ last.path = <<"x">> /\ store.thrown = NoErr
  /\ store._modules.mods[<<"x">>].raw.mutations = <<Fn(<<"incG">>, "increment")>>
  /\ <<"incX">> \in DOMAIN store._mutations
  /\ \A p \in DOMAIN store._modules.mods :
       store._modules.mods[p].id # store._mutations[<<"incX">>][1].id

(***************************************************************************)
(* SpecHot: the store of DeclRoot is hot-updated with declarations that    *)
(* replace handlers and getters of the root and of its modules, declare    *)
(* other states, name a module the tree does not have, or drop a           *)
(* namespace; commits and dispatches run before and after                  *)
(***************************************************************************)
MaxOpsHot == 3

\* a new declaration of the module m
DeclHotM ==
  Raw(FALSE, Leaf("hotm", 5),
      <<Fn(Increment, "setName")>>,
      <<Act(<<"get">>, "seven", FALSE)>>,
      <<Fn(<<"count">>, "plus10")>>, <<>>)

\* a new declaration of the module counter, without the namespaced flag
DeclHotCounter ==
  Raw(FALSE, Leaf("hotc", 5), <<Fn(<<"setName">>, "increment")>>, <<>>, <<>>, <<>>)

\* the declarations given to hotUpdate: new maps for the root and for m; a
\* module brandNew, which the tree does not have, before m; counter only;
\* brandNew between m and counter; brandNew under m, and counter after m
HotDecls ==
  {Raw(FALSE, Leaf("hot", 5),
       <<Fn(Increment, "setName"), Fn(<<"boom">>, "boom")>>,
       <<Act(<<"get">>, "seven", FALSE)>>,
       <<Fn(<<"count">>, "plus20")>>,
       <<Sub("m", DeclHotM)>>),
   Raw(FALSE, Leaf("hot", 5), <<>>, <<>>, <<>>,
       <<Sub("brandNew", DeclX), Sub("m", DeclHotM)>>),
   Raw(FALSE, Leaf("hot", 5), <<>>, <<>>, <<>>,
       <<Sub("counter", DeclHotCounter)>>),
   Raw(FALSE, Leaf("hot", 5), <<>>, <<>>, <<>>,
       <<Sub("m", DeclHotM), Sub("brandNew", DeclX), Sub("counter", DeclHotCounter)>>),
   Raw(FALSE, Leaf("hot", 5), <<>>, <<>>, <<>>,
       <<Sub("m", [DeclHotM EXCEPT !.modules = <<Sub("brandNew", DeclX)>>]),
         Sub("counter", DeclHotCounter)>>)}

InitHot ==
  \E dev \in BOOLEAN, strict \in BOOLEAN : Start(DeclRoot, strict, dev, TRUE, TRUE)

NextHot ==
  /\ ops < MaxOpsHot
  /\ \/ \E newOptions \in HotDecls : HotUpdate(newOptions)
     \/ \E type \in {Increment, <<"setName">>, <<"counter", "/", "increment">>} :
          Commit(Call(type, "p"))
     \/ Dispatch(Call(<<"get">>, "p"))

SpecHot == InitHot /\ [][NextHot]_vars

\* C15: hotUpdate never changes the state tree: the state at every module
\* path is the same before and after hotUpdate(newDeclaration), whatever
\* state newDeclaration declares, and no module takes the declared state.
C15_HotUpdateKeepsState ==
  [][last'.op = "hotUpdate" =>
       /\ store'._vm.state = store._vm.state
       /\ \A p \in DOMAIN store._modules.mods :
            /\ p \in DOMAIN store'._modules.mods
            /\ store'._modules.mods[p].state = store._modules.mods[p].state]_vars

\* C15's case: after commits had changed the state, a hotUpdate whose
\* declaration declares another state for the root and for m replaced the
\* mutations of both and left the state as the commits had made it
C15_Witness ==
  /\ last.op = "hotUpdate" /\ store.thrown = NoErr
  /\ last.call.payload.data.state = Leaf("hot", 5)
  /\ store._modules.mods[<<"m">>].raw.mutations = DeclHotM.mutations
  /\ store._modules.mods[<<>>].raw.mutations = <<Fn(Increment, "setName"), Fn(<<"boom">>, "boom")>>
  /\ store._vm.state[<<>>] = Obj("root", 1)
  /\ store._vm.state[<<"m">>] = Obj("m", 1)

\* the modules of the tree that the declaration decl, given for the module
\* at path, names, each with the declaration given for it
RECURSIVE Supplied(_, _, _)
Supplied(mc, path, decl) ==
  {<<path, decl>>} \cup
  UNION {Supplied(mc, Append(path, decl.modules[i].key), decl.modules[i].raw) :
           i \in {j \in 1..Len(decl.modules) : hasChild(mc, path, decl.modules[j].key)}}

\* those of them that come, at every level, before any key that names no
\* module of the tree
RECURSIVE ReachedByUpdate(_, _, _)
ReachedByUpdate(mc, path, decl) ==
  {<<path, decl>>} \cup
  UNION {ReachedByUpdate(mc, Append(path, decl.modules[i].key), decl.modules[i].raw) :
           i \in {j \in 1..Len(decl.modules) :
                    \A k \in 1..j : hasChild(mc, path, decl.modules[k].key)}}

\* every one of these modules has the maps that its declaration supplies
HasNewDefinitions(S, modules) ==
  \A pd \in modules :
    LET raw == S._modules.mods[pd[1]].raw
        decl == pd[2]
    IN /\ decl.mutations # <<>> => raw.mutations = decl.mutations
       /\ decl.actions # <<>> => raw.actions = decl.actions
       /\ decl.getters # <<>> => raw.getters = decl.getters

\* the module at path declares fn in this map
Declares(map, fn) == \E i \in 1..Len(map) : map[i].fn = fn

\* every handler that the current call ran, and every getter that
\* store.getters evaluates, is a definition of the module tree as it is
RunsCurrentDefinitions ==
  /\ \A i \in 1..Len(store.log) :
       /\ store.log[i].ev = "mutation" =>
            /\ store.log[i].type \in DOMAIN store._modules.mods
            /\ Declares(store._modules.mods[store.log[i].type].raw.mutations, store.log[i].fn)
       /\ store.log[i].ev = "action" =>
            /\ store.log[i].type \in DOMAIN store._modules.mods
            /\ Declares(store._modules.mods[store.log[i].type].raw.actions, store.log[i].fn)
  /\ \A type \in store.getters :
       LET w == store._vm.computed[type] IN
       /\ w.local.path \in DOMAIN store._modules.mods
       /\ store._modules.mods[w.local.path].id = w.id
       /\ Declares(store._modules.mods[w.local.path].raw.getters, w.fn)

\* C16 (as amended): after hotUpdate(newDeclaration) the registries are
\* those of an install walk, from empty, of the updated tree; every existing
\* module that the update walk reaches (the root, and every module named by
\* newDeclaration before any key that names no module of the tree) has the
\* mutations, actions and getters that newDeclaration supplies for it; and
\* every commit, dispatch and getter read runs definitions of the tree as
\* it is, never one of a replaced declaration.
C16_HotUpdateReached ==
  /\ []RunsCurrentDefinitions
  /\ [][(last'.op = "hotUpdate" /\ store'.thrown = NoErr) =>
          /\ MatchesTree(store')
          /\ HasNewDefinitions(store',
               ReachedByUpdate(store._modules, <<>>, last'.call.payload.data))]_vars

\* C16 as stated, for every existing module that newDeclaration names:
\* refuted by a declaration that names a module the tree lacks before one
\* it has
C16_HotUpdateSupplied ==
  /\ []RunsCurrentDefinitions
  /\ [][(last'.op = "hotUpdate" /\ store'.thrown = NoErr) =>
          /\ MatchesTree(store')
          /\ HasNewDefinitions(store',
               Supplied(store._modules, <<>>, last'.call.payload.data))]_vars

\* C16's case: after a hotUpdate that gave the root and m a new definition
\* of increment (which sets the name), commit("increment") ran the new
\* definition in both and the old one, which counts, in neither
C16_Witness ==
  /\ last.op = "commit" /\ last.call.type = Increment /\ store.thrown = NoErr
  /\ store._modules.mods[<<"m">>].raw.mutations = DeclHotM.mutations
  /\ Len(UserCalls({"mutation"})) = 2
  /\ UserCalls({"mutation"})[1].fn = "setName" /\ UserCalls({"mutation"})[2].fn = "setName"
  /\ store._vm.state[<<>>] = Obj("p", 0)
  /\ store._vm.state[<<"m">>] = Obj("p", 0)

\* the subscribers that have this hook were all called in the current call,
\* in their order, once each, with this action and the state of that time
HookCalled(hook, type, payload) ==
  LET subs == SelectSeq(store._actionSubscribers, LAMBDA s : hasHook(s, hook))
      calls == UserCalls({hook})
  IN /\ Len(calls) = Len(subs)
     /\ \A j \in 1..Len(subs) :
          /\ calls[j].fn = subs[j].fn
          /\ calls[j].type = type /\ calls[j].payload = payload

\* every handler of the dispatch has settled successfully
AllFulfilled(d) == \A i \in 1..Len(d.hs) : d.hs[i].st = "fulfilled"

\* C17: within one dispatch on a registered type every before subscriber is
\* invoked, synchronously, before any action handler starts; the after
\* subscribers are invoked only once every handler has settled successfully,
\* with the action and the state of that time; and the promise that dispatch
\* returned is resolved only after the after subscribers have run.
C17_DispatchOrder ==
  /\ (DispatchedRegistered /\ UserCalls({"action"}) # <<>>) =>
       /\ HookCalled("before", last.call.type, last.call.payload)
       /\ \A i, j \in 1..Len(store.log) :
            (store.log[i].ev = "before" /\ store.log[j].ev = "action") => i < j
  /\ (\E i \in 1..Len(store.log) : store.log[i].ev = "after") =>
       /\ last.op = "react"
       /\ AllFulfilled(store.dispatches[last.path[1]])
  /\ \A k \in 1..Len(store.dispatches) :
       store.dispatches[k].promise.st = "fulfilled" => AllFulfilled(store.dispatches[k])
  /\ (last.op = "react" /\ store.dispatches[last.path[1]].promise.st = "fulfilled") =>
       LET d == store.dispatches[last.path[1]] IN
       /\ HookCalled("after", d.type, d.payload)
       /\ \A i \in 1..Len(store.log) :
            store.log[i].ev = "after" => store.log[i].state = store._vm.state

\* what of C17 the code keeps: the order, where no subscriber throws
C17_OrderWhereSubscribersReturn ==
  (\A i \in 1..Len(store._actionSubscribers) :
     store._actionSubscribers[i].fn # "Thrower") => C17_DispatchOrder

\* the order has a case: the before hook of Obj, then the two handlers of
\* get; later, both settled, the after hook of Obj and the resolved promise
C17_Reached ==
  /\ last.op = "react" /\ store.dispatches[last.path[1]].type = <<"get">>
  /\ store.dispatches[last.path[1]].promise.st = "fulfilled"
  /\ Len(store._actionSubscribers) = 1 /\ store._actionSubscribers[1].fn = "Obj"
  /\ Len(UserCalls({"after"})) = 1

\* C17's failure: the first subscriber threw in its before hook, the before
\* hook of the second was never invoked, and the handler started
C17_HandlerBeforeSubscriber ==
  /\ DispatchedRegistered /\ store.thrown = NoErr
  /\ Len(store._actionSubscribers) = 2
  /\ store._actionSubscribers[1].fn = "Thrower"
  /\ store._actionSubscribers[2].fn = "Obj"
  /\ UserCalls({"action"}) # <<>>
  /\ \A i \in 1..Len(store.log) : store.log[i].fn # "Obj"

\* the handler of dispatch d that failed first
FirstFailed(d) ==
  LET failed == SelectSeq(d.order, LAMBDA i : d.hs[i].st = "rejected")
  IN failed[1]

\* C18: a dispatch on a type with several handlers starts all of them, in
\* registration order, before it waits for any; its result is fulfilled
\* only when every handler has settled successfully; and it is rejected, with
\* the error of the handler that failed first, as soon as one has failed,
\* whether or not the others, which go on, have settled.
C18_ConcurrentHandlers ==
  /\ (DispatchedRegistered /\ Len(store._actions[last.call.type]) >= 2) =>
       LET entry == store._actions[last.call.type]
           calls == UserCalls({"action"})
       IN /\ store.thrown = NoErr /\ store.ret.kind = "promise"
          /\ Len(calls) = Len(entry)
          /\ \A i \in 1..Len(entry) : calls[i].fn = entry[i].fn
          /\ store.dispatches[store.ret.id].order = <<>>
  /\ \A k \in 1..Len(store.dispatches) :
       LET d == store.dispatches[k] IN
       Len(d.hs) >= 2 =>
         /\ d.result.st = "fulfilled" <=> AllFulfilled(d)
         /\ d.promise.st = "fulfilled" => AllFulfilled(d)
         /\ d.result.st = "rejected" <=> \E i \in 1..Len(d.hs) : d.hs[i].st = "rejected"
         /\ d.result.st = "rejected" => d.result = d.hs[FirstFailed(d)]
         /\ d.promise.st = "rejected" => d.promise = d.result

\* what of C18 the code keeps: the same, in a host that defines w
C18_WhereWDefined == wDefined => C18_ConcurrentHandlers

\* the concurrency has a case: of the two handlers of fail the first was
\* rejected, dispatch rejected its promise while the second was pending,
\* and the second then resolved
C18_Reached ==
  /\ last.op = "settle" /\ last.path = <<1, 2>>
  /\ store.dispatches[1].type = <<"fail">>
  /\ store.dispatches[1].order = <<1, 2>>
  /\ store.dispatches[1].hs[2].st = "fulfilled"
  /\ store.dispatches[1].promise = Rejected("Failed")

\* C18's failure: the dispatch on fail, a type with two handlers, threw
\* and started neither
C18_NoneStarted ==
  /\ DispatchedRegistered /\ last.call.type = <<"fail">>
  /\ Len(store._actions[<<"fail">>]) = 2
  /\ store.thrown = "ReferenceError" /\ store.ret = RetUndefined
  /\ UserCalls({"action"}) = <<>>
  /\ store.dispatches = <<>>

\* the events of this log were run with the committing flag as the scopes
\* have it: the handlers of a mutation, and the writes of a handler, of
\* grafting, of replaceState and of unregisterModule's deletion inside a
\* scope; the writes of everything else outside every scope; a subscriber
\* of the commit that a handler made inside the scope of the outer commit,
\* a subscriber of the outer commit outside it
FlagFollowsScopes(log, outer) ==
  \A i \in 1..Len(log) :
    /\ log[i].ev = "mutation" => log[i].committing
    /\ WrittenIn(log, i, {"mutation", "install", "replaceState", "unregisterModule"})
         => log[i].committing
    /\ WrittenIn(log, i, {"action", "timer", "app"}) => ~log[i].committing
    /\ log[i].ev = "sub" => (log[i].committing <=> log[i].type # outer)

\* C19: the committing flag is true exactly while a committing scope
\* (commit, grafting at install time, replaceState, the deletion of
\* unregisterModule) is active: leaving an inner scope leaves it true,
\* leaving the outermost one makes it false, whether the critical section
\* returned or a mutation handler threw, so it is false whenever the store
\* is idle.
C19_CommittingFlag ==
  /\ ~store._committing
  /\ FlagFollowsScopes(store.log, last.call.type)

\* what of C19 the code keeps: a call that finds the flag false and does
\* not throw runs every scope with the flag true and leaves it false
C19_WhereNothingThrows ==
  [][(~store._committing /\ store'.thrown = NoErr) =>
       /\ ~store'._committing
       /\ FlagFollowsScopes(store'.log, last'.call.type)]_vars

\* the scopes have a case: a handler committed increment from inside the
\* commit of nested; the subscriber of increment ran with the flag true,
\* the subscriber of nested with the flag false
C19_Reached ==
  /\ last.op = "commit" /\ last.call.type = <<"nested">> /\ store.thrown = NoErr
  /\ ~store._committing
  /\ Len(UserCalls({"sub"})) = 2
  /\ UserCalls({"sub"})[1].type = Increment /\ UserCalls({"sub"})[1].committing
  /\ UserCalls({"sub"})[2].type = <<"nested">> /\ ~UserCalls({"sub"})[2].committing

\* C19's failure: a mutation handler threw, and the store is idle with the
\* committing flag true
C19_StuckAfterThrow ==
  /\ last.op = "commit" /\ last.call.type = <<"boom">>
  /\ store.thrown = "Boom"
  /\ store._committing

\* the index of the first handler of this list that throws, 0 when none does
FirstThrowing(entry) ==
  LET throwing == {j \in 1..Len(entry) : entry[j].fn = "boom"}
  IN IF throwing = {} THEN 0 ELSE CHOOSE j \in throwing : \A k \in throwing : j <= k

\* C20: if the j-th of the handlers registered under a mutation type throws
\* during commit, the handlers before it and it have run, the handlers
\* after it are not invoked, no mutation subscriber is notified for that
\* commit, and the exception reaches the caller of commit.
C20_HandlerThrows ==
  (/\ last.op = "commit" /\ last.call.type \in DOMAIN store._mutations
   /\ FirstThrowing(store._mutations[last.call.type]) > 0) =>
    LET entry == store._mutations[last.call.type]
        j == FirstThrowing(entry)
        calls == UserCalls({"mutation"})
    IN /\ store.thrown = "Boom"
       /\ Len(calls) = j
       /\ \A i \in 1..j : calls[i].fn = entry[i].fn /\ calls[i].type = entry[i].local.path
       /\ UserCalls({"sub"}) = <<>>

\* C20's case: of the two handlers of boom the first threw; the second did
\* not run, the two subscribers were not notified, the state is as it was
C20_Witness ==
  /\ last.op = "commit" /\ last.call.type = <<"boom">>
  /\ Len(store._mutations[<<"boom">>]) = 2
  /\ store._mutations[<<"boom">>][2].fn = "increment"
  /\ Len(store._subscribers) = 2
  /\ store.thrown = "Boom"
  /\ Len(UserCalls({"mutation"})) = 1
  /\ store._vm.state[<<"m">>].count = 0

\* and the second of the two handlers of risky threw after the first had
\* counted
C20_SecondThrew ==
  /\ last.op = "commit" /\ last.call.type = <<"risky">> /\ ops = 2
  /\ store._subscribers = <<"s1">>
  /\ store.thrown = "Boom"
  /\ Len(UserCalls({"mutation"})) = 2
  /\ store._vm.state[<<>>].count = 1
  /\ UserCalls({"sub"}) = <<>>

(***************************************************************************)
(* SpecRound: subscribers that unsubscribe themselves, unsubscribe another *)
(* subscriber or subscribe one while a round notifies them, in the round   *)
(* of commit and in the before, after and error rounds of dispatch         *)
(***************************************************************************)
MaxOpsRound == 4

InitRound == \E w \in BOOLEAN : Start(DeclRoot, FALSE, TRUE, w, TRUE)

NextRound ==
  /\ ops < MaxOpsRound
  /\ \/ \E fn \in {"s1", "sQuit", "sKick", "sAdd"} : Subscribe(fn, FALSE)
     \/ \E fn \in {"Obj", "Quit", "Kick", "Add"} : SubscribeAction(fn, FALSE)
     \/ Commit(Call(Increment, "p"))
     \/ \E type \in {<<"seven">>, <<"refuse">>} : Dispatch(Call(type, "p"))
     \/ \E k \in 1..Len(store.dispatches) : React(k)

SpecRound == InitRound /\ [][NextRound]_vars

\* the subscribers that the events ev of a log name, in the order of the calls
Round(log, ev) ==
  LET calls == SelectSeq(log, LAMBDA e : e.ev = ev)
  IN [i \in 1..Len(calls) |-> calls[i].fn]

\* subs.filter(sub => sub[hook]), by name
Hooked(subs, hook) ==
  LET with == SelectSeq(subs, LAMBDA sub : hasHook(sub, hook))
  IN [i \in 1..Len(with) |-> with[i].fn]

\* the hook that the reaction of dispatch k calls
HookOf(S, k) == IF S.dispatches[k].result.st = "fulfilled" THEN "after" ELSE "error"

\* C21: every notification round (the mutation subscribers in commit; the
\* before, after and error subscribers in dispatch) calls exactly the
\* subscribers that were in the list when the round started, once each and
\* in the order of the list, whatever the subscribers unsubscribe or
\* subscribe during the round: none that was present is skipped or called
\* twice, and none that was added during the round is called in it.
C21_RoundsIterateCopy ==
  [][/\ (/\ last'.op = "commit" /\ store'.thrown = NoErr
         /\ last'.call.type \in DOMAIN store._mutations)
          => Round(store'.log, "sub") = store._subscribers
     /\ (/\ last'.op = "dispatch" /\ store'.thrown = NoErr
         /\ last'.call.type \in DOMAIN store._actions)
          => Round(store'.log, "before") = Hooked(store._actionSubscribers, "before")
     /\ last'.op = "react"
          => Round(store'.log, HookOf(store, last'.path[1]))
               = Hooked(store._actionSubscribers, HookOf(store, last'.path[1]))]_vars

\* C21's case: sQuit and s1 were subscribed in this order; in the round of
\* a commit sQuit took itself off the list, and s1, which moved to the
\* index that the round had visited, was still called
C21_Witness ==
  /\ last.op = "commit" /\ store.thrown = NoErr
  /\ Round(store.log, "sub") = <<"sQuit", "s1">>
  /\ store._subscribers = <<"s1">>

\* the same in the error round of a dispatch whose handler rejected: Kick
\* took Obj, which came after it, off the list, and Obj was still called
C21_KickedStillCalled ==
  /\ last.op = "react"
  /\ Round(store.log, "error") = <<"Kick", "Obj">>
  /\ store._actionSubscribers = <<[fn |-> "Kick", id |-> 0]>>

\* a subscriber added during a round is not called in it: Add subscribed
\* Obj in the before round of a dispatch, and only Add was called
C21_AddedNotCalled ==
  /\ last.op = "dispatch" /\ store.thrown = NoErr
  /\ Round(store.log, "before") = <<"Add">>
  /\ Len(store._actionSubscribers) = 2

\* the declaration d, or a declaration nested in it, has a modules map with
\* a key that names no module at that place of the tree of mc
RECURSIVE NamesUnknown(_, _, _)
NamesUnknown(mc, path, d) ==
  \E i \in 1..Len(d.modules) :
    \/ ~hasChild(mc, path, d.modules[i].key)
    \/ /\ hasChild(mc, path, d.modules[i].key)
       /\ NamesUnknown(mc, Append(path, d.modules[i].key), d.modules[i].raw)

\* the tree of S as a structure: the paths, the keys of every module in
\* their order, and which Module object is at each path
Structure(S) ==
  [p \in DOMAIN S._modules.mods |->
     [id |-> S._modules.mods[p].id, runtime |-> S._modules.mods[p].runtime,
      children |-> S._modules.mods[p].children]]

\* the identities of the modules whose handlers and getters the registries hold
RegistryIds(S) ==
  UNION {{S._mutations[t][i].id : i \in 1..Len(S._mutations[t])} :
           t \in DOMAIN S._mutations}
    \cup UNION {{S._actions[t][i].id : i \in 1..Len(S._actions[t])} :
                  t \in DOMAIN S._actions}
    \cup {S._wrappedGetters[t].id : t \in DOMAIN S._wrappedGetters}
    \cup {S._modulesNamespaceMap[ns] : ns \in DOMAIN S._modulesNamespaceMap}

\* C22: hotUpdate never changes the structure of the module tree: after
\* hotUpdate(newDeclaration) the registered module paths (and the Module
\* objects at them) are those of before, the state tree has the keys of
\* before, and the rebuilt registries hold handlers, getters and namespaces
\* of the modules of that tree only; a key of a modules map that names no
\* existing child adds no module, no state key and no registry entry.
C22_HotUpdateKeepsStructure ==
  [][last'.op = "hotUpdate" =>
       /\ store'.thrown = NoErr
       /\ Structure(store') = Structure(store)
       /\ \A p \in {<<"m">>, <<"counter">>, <<"brandNew">>, <<"m", "brandNew">>} :
            hasModule(store', p) = hasModule(store, p)
       /\ DOMAIN store'._vm.state = DOMAIN store._vm.state
       /\ RegistryIds(store') \subseteq {store._modules.mods[p].id :
                                          p \in DOMAIN store._modules.mods}
       /\ MatchesTree(store')
       /\ <<"incX">> \notin DOMAIN store'._mutations]_vars

\* C22's case: a hotUpdate whose declaration names the module brandNew,
\* with a state and the mutation incX, under m, which has no such child,
\* returned; the tree, the state and the registries have no trace of it
C22_Witness ==
  /\ last.op = "hotUpdate" /\ store.thrown = NoErr
  /\ NamesUnknown(store._modules, <<>>, last.call.payload.data)
  /\ \E i \in 1..Len(last.call.payload.data.modules) :
       /\ last.call.payload.data.modules[i].key = "m"
       /\ last.call.payload.data.modules[i].raw.modules = <<Sub("brandNew", DeclX)>>
  /\ ~hasModule(store, <<"m", "brandNew">>).value
  /\ <<"m", "brandNew">> \notin DOMAIN store._vm.state
  /\ <<"incX">> \notin DOMAIN store._mutations

\* the module was updated with decl: it has the namespaced flag of decl and
\* the maps that decl supplies, and its own maps where decl supplies none
UpdatedWith(old, new, decl) ==
  /\ new.raw.namespaced = decl.namespaced
  /\ new.raw.mutations = (IF decl.mutations = <<>> THEN old.raw.mutations ELSE decl.mutations)
  /\ new.raw.actions = (IF decl.actions = <<>> THEN old.raw.actions ELSE decl.actions)
  /\ new.raw.getters = (IF decl.getters = <<>> THEN old.raw.getters ELSE decl.getters)

\* C23: when update meets an unknown module key at some module, the module
\* itself and the children listed before the unknown key in that modules
\* map are updated, the children listed after it are left with their old
\* mutations, actions and getters, and the update goes on in the remaining
\* branches of the ancestors: the modules updated are exactly those that
\* the declaration names before, at their own level, any unknown key.
C23_PartialUpdate ==
  [][(last'.op = "hotUpdate" /\ store'.thrown = NoErr) =>
       LET reached == ReachedByUpdate(store._modules, <<>>, last'.call.payload.data)
       IN \A p \in DOMAIN store._modules.mods :
            /\ p \in DOMAIN store'._modules.mods
            /\ \A pd \in reached :
                 pd[1] = p => UpdatedWith(store._modules.mods[p],
                                          store'._modules.mods[p], pd[2])
            /\ (\A pd \in reached : pd[1] # p) =>
                 store'._modules.mods[p].raw = store._modules.mods[p].raw]_vars

\* C23's case: hotUpdate was given {modules: {m, brandNew, counter}} on the
\* tree of the constructor: the root and m, listed before the unknown key,
\* are updated, and counter, listed after it, has its old definitions
C23_Witness ==
  /\ last.op = "hotUpdate" /\ store.thrown = NoErr /\ ops = 1
  /\ last.call.payload.data.modules =
       <<Sub("m", DeclHotM), Sub("brandNew", DeclX), Sub("counter", DeclHotCounter)>>
  /\ store._modules.mods[<<"m">>].raw.mutations = DeclHotM.mutations
  /\ store._modules.mods[<<"counter">>].raw.namespaced
  /\ store._modules.mods[<<"counter">>].raw.mutations = DeclCounter.mutations

\* the unknown key is in the modules map given for m: m itself is updated,
\* and the walk goes on to counter, the next key of the root's map
C23_WalkGoesOnAbove ==
  /\ last.op = "hotUpdate" /\ store.thrown = NoErr /\ ops = 1
  /\ last.call.payload.data.modules[1].raw.modules = <<Sub("brandNew", DeclX)>>
  /\ store._modules.mods[<<"m">>].raw.mutations = DeclHotM.mutations
  /\ ~store._modules.mods[<<"counter">>].raw.namespaced
  /\ store._modules.mods[<<"counter">>].raw.mutations = DeclHotCounter.mutations

\* C24: path lookup never raises an error for a missing segment, at any
\* position of the path: get(path) returns undefined and isRegistered(path)
\* / hasModule(path) returns false, also when a segment before the last
\* one is missing.
C24_LookupNeverThrows ==
  /\ \A path \in LookupPaths : get(store._modules, path).kind # "TypeError"
  /\ last.op = "hasModule" =>
       /\ store.thrown = NoErr
       /\ store.ret.kind = IF last.path \in DOMAIN store._modules.mods
                           THEN "true" ELSE "false"

\* what of C24 the code keeps: get(path) returns the module or undefined
\* when all segments but the last name modules, and hasModule(path) returns
\* whether path names a module when all segments but the last two do; with
\* a segment missing before that, the lookup throws a TypeError
C24_WhereOnlyLastMissing ==
  /\ \A path \in LookupPaths :
       get(store._modules, path).kind =
         IF path \in DOMAIN store._modules.mods THEN "module"
         ELSE IF Butlast(path) \in DOMAIN store._modules.mods THEN "undefined"
         ELSE "TypeError"
  /\ last.op = "hasModule" =>
       IF Len(last.path) < 2 \/ Butlast(Butlast(last.path)) \in DOMAIN store._modules.mods
       THEN /\ store.thrown = NoErr
            /\ store.ret.kind = IF last.path \in DOMAIN store._modules.mods
                                THEN "true" ELSE "false"
       ELSE store.thrown = "TypeError"

\* C24's failure: hasModule(['z', 'b', 'c']), whose first segment names no
\* module, threw a TypeError
C24_LookupThrew ==
  /\ last.op = "hasModule" /\ last.path = <<"z", "b", "c">>
  /\ store.thrown = "TypeError"
  /\ get(store._modules, <<"z", "b">>).kind = "TypeError"

\* the lookups that answer: of a registered path, true; of a path whose
\* last or second-to-last segment is the only one that names no module, false
C24_Answered ==
  /\ last.op = "hasModule" /\ last.path = <<"a", "z", "c">>
  /\ store.thrown = NoErr /\ store.ret.kind = "false"

\* what reading local.getters of the namespace ns gives: the proxy that
\* makeLocalGetters returns, the cached one if there is one
LocalGettersView(S, ns) == makeLocalGetters(S, ns)._makeLocalGettersCache[ns]

\* C25: whenever no registry rebuild is in progress, for every module with
\* non-empty namespace ns the keys of its local getters view are exactly
\* the suffixes t such that ns + t is a key of the current store.getters,
\* and local.getters[t] reads store.getters[ns + t]; this holds again after
\* registerModule, unregisterModule and hotUpdate have rebuilt the getter
\* set.
C25_LocalGettersView ==
  \A p \in DOMAIN store._modules.mods :
    LET ns == store._modules.mods[p].context.namespace
        view == LocalGettersView(store, ns)
    IN ns # <<>> =>
         /\ \A type \in store.getters :
              IsPrefix(ns, type) => SubSeq(type, Len(ns) + 1, Len(type)) \in DOMAIN view
         /\ \A t \in DOMAIN view : ns \o t \in store.getters /\ view[t] = ns \o t

\* C25's case: an action of counter read local.getters when counter/count
\* was the only getter of the namespace; registerModule then added
\* counter/fresh, and the view that the next action of counter read has
\* both keys
C25_Witness ==
  /\ last.op = "dispatch" /\ store.thrown = NoErr
  /\ <<"counter", "/">> \in DOMAIN store._makeLocalGettersCache
  /\ DOMAIN store._makeLocalGettersCache[<<"counter", "/">>] = {<<"count">>, <<"fresh">>}
  /\ Len(store.dispatches) = 2

\* the same after a hotUpdate that replaced the getters of counter, and
\* after the unregisterModule that took counter/fresh away again
C25_AfterHotUpdate ==
  /\ last.op = "dispatch" /\ store.thrown = NoErr
  /\ <<"counter", "/">> \in DOMAIN store._makeLocalGettersCache
  /\ DOMAIN store._makeLocalGettersCache[<<"counter", "/">>] = {<<"double">>}
  /\ Len(store.dispatches) = 2

C25_AfterUnregister ==
  /\ last.op = "dispatch" /\ store.thrown = NoErr
  /\ hasModule(store, <<"counter", "x">>).value = FALSE
  /\ store._modules.nextId > 4
  /\ DOMAIN store._makeLocalGettersCache[<<"counter", "/">>] = {<<"count">>}
  /\ Len(store.dispatches) = 2

\* what store.getters[type] returns when the getter adds n to the count of
\* the state at path p of the root state S has now
GetterReads(S, type, p, n) ==
  (type \in S.getters /\ p \in DOMAIN S._vm.state) =>
     readGetter(S, type) = [kind |-> "number", n |-> S._vm.state[p].count + n]

\* C26: a module's local state is resolved against the live root state on
\* every access: the state that a mutation handler, an action handler or a
\* getter of the module at path p receives is the value at path p of the
\* root state of that moment (after replaceState(s): of s), not the state
\* the module had when it was installed.  The handlers increment and mutate
\* of counter add one to the count of the object they are given, and the
\* getter count returns the count of the object it is given plus ten.
C26_LocalStateIsLive ==
  [][/\ ((last'.op = "commit" /\ last'.call.type = <<"counter", "/", "increment">>)
         \/ (last'.op = "dispatch" /\ last'.call.type = <<"counter", "/", "mutate">>))
          => store'._vm.state =
               [store._vm.state EXCEPT ![<<"counter">>].count = @ + 1]
     /\ GetterReads(store', <<"counter", "/", "count">>, <<"counter">>, 10)
     /\ GetterReads(store', <<"count">>, <<>>, 10)]_vars

\* C26's case: after replaceState(s), where s.counter is {name: 'replaced',
\* count: 1}, the mutation counter/increment and then the action
\* counter/mutate each added one to s.counter.count, the getter
\* counter/count reads 13, and the root object of s is as replaceState left it
C26_Witness ==
  /\ last.op = "dispatch" /\ last.call.type = <<"counter", "/", "mutate">>
  /\ ops = 3
  /\ store._vm.state[<<"counter">>] = Obj("replaced", 3)
  /\ store._vm.state[<<>>] = Obj("replaced", 1)
  /\ readGetter(store, <<"counter", "/", "count">>) = [kind |-> "number", n |-> 13]

\* the action registry has, under type, the handler fn of the module id
Registered(S, type, id, fn) ==
  /\ type \in DOMAIN S._actions
  /\ \E i \in 1..Len(S._actions[type]) :
       S._actions[type][i].id = id /\ S._actions[type][i].fn = fn

\* every action of every module is registered under its bare key when it is
\* declared {root: true}, under namespace + key otherwise, and not under
\* the other of the two
RootActionsRegistered(S) ==
  \A p \in DOMAIN S._modules.mods :
    LET module == S._modules.mods[p]
        ns == NamespacedKeys(S._modules, p)
    IN \A i \in 1..Len(module.raw.actions) :
         LET a == module.raw.actions[i]
             bare == a.key
             full == ns \o a.key
         IN /\ Registered(S, IF a.root THEN bare ELSE full, module.id, a.fn)
            /\ ns # <<>> => ~Registered(S, IF a.root THEN full ELSE bare, module.id, a.fn)

\* the current call ran the action handler fn of the module at path
RanAction(S, path, fn) ==
  \E i \in 1..Len(S.log) :
    S.log[i].ev = "action" /\ S.log[i].type = path /\ S.log[i].fn = fn

\* a dispatch of type runs the handlers fns of counter and no other of it
DispatchRuns(type, fns) ==
  (last'.op = "dispatch" /\ last'.call.type = type) =>
     \A fn \in {"seven", "incrementAsync", "mutate"} :
        RanAction(store', <<"counter">>, fn) <=> fn \in fns

\* C27: an action declared as {root: true, handler} in a module with
\* namespace ns is registered under its bare key, so dispatch(key) runs it
\* and dispatch(ns + key) does not; an action declared as a bare callable,
\* or with root absent or false, is registered under ns + key only.
C27_RootActions ==
  /\ []RootActionsRegistered(store)
  /\ [][/\ DispatchRuns(<<"rootSeven">>, {"seven"})
        /\ DispatchRuns(<<"counter", "/", "rootSeven">>, {})
        /\ DispatchRuns(<<"counter", "/", "incrementAsync">>, {"incrementAsync"})
        /\ DispatchRuns(<<"incrementAsync">>, {})]_vars

\* what of C27 the code keeps: the registration as stated, in every host,
\* and the dispatches as stated in a host that defines w
C27_WhereWDefined ==
  /\ []RootActionsRegistered(store)
  /\ [][wDefined =>
          /\ DispatchRuns(<<"rootSeven">>, {"seven"})
          /\ DispatchRuns(<<"counter", "/", "rootSeven">>, {})
          /\ DispatchRuns(<<"counter", "/", "incrementAsync">>, {"incrementAsync"})
          /\ DispatchRuns(<<"incrementAsync">>, {})]_vars

\* in a host that defines w, dispatch('rootSeven') ran the handler that
\* counter declares with root: true
C27_Reached ==
  /\ last.op = "dispatch" /\ last.call.type = <<"rootSeven">>
  /\ store.thrown = NoErr
  /\ RanAction(store, <<"counter">>, "seven")
  /\ store.dispatches[store.ret.id].result = Fulfilled(Num(7))

\* C27's failure: the action is registered under rootSeven, and
\* dispatch('rootSeven') threw a ReferenceError and ran no handler
C27_DispatchThrew ==
  /\ last.op = "dispatch" /\ last.call.type = <<"rootSeven">>
  /\ <<"rootSeven">> \in DOMAIN store._actions
  /\ store.thrown = "ReferenceError"
  /\ ~RanAction(store, <<"counter">>, "seven")

\* the Module objects that the constructor made: the declaration of the
\* chain has four modules, which the constructor numbers 1 to 4
ConstructorMade(module) == module.id \in 1..4

\* C28: every module created by the store constructor, at any depth of the
\* declaration, has runtime = false, and every module created by
\* registerModule, including every module nested in the registered
\* declaration, has runtime = true.
C28_RuntimeFlag ==
  /\ ops = 0 =>
       /\ DOMAIN store._modules.mods = {<<>>, <<"a">>, <<"a", "b">>, <<"a", "b", "c">>}
       /\ \A p \in DOMAIN store._modules.mods : ConstructorMade(store._modules.mods[p])
  /\ \A p \in DOMAIN store._modules.mods :
       store._modules.mods[p].runtime <=> ~ConstructorMade(store._modules.mods[p])

\* C28's case: registerModule(['d'], {modules: {e: ...}}) made d and the
\* module e nested in it runtime modules, and the modules of the
\* constructor's declaration, down to a/b/c, are not
C28_Witness ==
  /\ last.op = "registerModule" /\ last.path = <<"d">> /\ store.thrown = NoErr
  /\ store._modules.mods[<<"d">>].runtime
  /\ <<"d", "e">> \in DOMAIN store._modules.mods
  /\ store._modules.mods[<<"d", "e">>].runtime
  /\ ~store._modules.mods[<<>>].runtime
  /\ ~store._modules.mods[<<"a", "b", "c">>].runtime

\* the same where the registered declaration took the place of the module
\* a/b of the constructor's declaration, and of the module c below it
C28_ReplacedStatic ==
  /\ last.op = "registerModule" /\ last.path = <<"a", "b">> /\ store.thrown = NoErr
  /\ store._modules.mods[<<"a", "b">>].runtime
  /\ store._modules.mods[<<"a", "b", "e">>].runtime
  /\ <<"a", "b", "c">> \notin DOMAIN store._modules.mods

\* the paths of the modules, below the root, of the declaration given to
\* the constructor
DeclaredPaths == {<<"m">>, <<"counter">>}

\* the module of the constructor's declaration is at path p
DeclaredAt(S, p) ==
  /\ hasModule(S, p) = [value |-> TRUE, thrown |-> NoErr]
  /\ ~S._modules.mods[p].runtime

\* C29: a module that was part of the declaration given to the store
\* constructor stays registered for the whole life of the store: no
\* sequence of registerModule, unregisterModule and hotUpdate calls makes
\* hasModule(p) false for its path p.
C29_StaysRegistered ==
  \A p \in DeclaredPaths : hasModule(store, p) = [value |-> TRUE, thrown |-> NoErr]

\* C29 (as amended): a module of the constructor's declaration stays
\* registered, and stays the same non-runtime module, through every
\* unregisterModule, every hotUpdate, every commit and dispatch, and every
\* registerModule on a path that is not its own path or the path of one of
\* its ancestors; a registerModule on such a path puts a runtime module in
\* its place, which unregisterModule removes.
C29_StaysUnlessReplaced ==
  /\ (ops = 0 => \A p \in DeclaredPaths : DeclaredAt(store, p))
  /\ [][\A p \in DeclaredPaths :
          (DeclaredAt(store, p) /\ ~(RegistersModule /\ IsPrefix(last'.path, p)))
            => /\ DeclaredAt(store', p)
               /\ store'._modules.mods[p].id = store._modules.mods[p].id]_vars

\* C29's case: unregisterModule(['m']) and then hotUpdate were called on
\* the store, and m, a module of the constructor's declaration, is
\* registered as before
C29_Witness ==
  /\ last.op = "hotUpdate" /\ store.thrown = NoErr /\ ops = 2
  /\ <<"m">> \notin DOMAIN store._vm.state
  /\ DeclaredAt(store, <<"m">>)
  /\ store._modules.mods[<<"m">>].id = 2

\* where the statement fails: registerModule(['m'], ...) replaced m by a
\* runtime module and unregisterModule(['m']) removed that one
C29_Removed ==
  /\ last.op = "unregisterModule" /\ last.path = <<"m">> /\ store.thrown = NoErr
  /\ hasModule(store, <<"m">>) = [value |-> FALSE, thrown |-> NoErr]

\* the state tree of S mirrors its module tree: every registered module
\* below the root has a state object at its path, which local.state finds
Mirrors(S) ==
  \A p \in DOMAIN S._modules.mods \ {<<>>} :
    hasModule(S, p).value =>
      /\ p \in DOMAIN S._vm.state
      /\ getNestedState(S._vm.state, p) = [kind |-> "object", path |-> p]

\* C30: after any sequence of registerModule (without preserveState),
\* unregisterModule, hotUpdate and commit, the state tree mirrors the module
\* tree: every non-root path p with hasModule(p) true has a state value at
\* path p of the root state, so the local state of every registered module
\* resolves.  The constructor leaves the two trees alike, and every such
\* call keeps them so.
C30_StateMirrorsTree ==
  /\ (ops = 0 => Mirrors(store))
  /\ [][(Mirrors(store) /\ last'.op # "registerModulePreserve") => Mirrors(store')]_vars

\* what of C30 the code keeps: every call keeps the two trees alike,
\* except unregisterModule on a module of the constructor's declaration,
\* which deletes the state and keeps the module
C30_WhereRuntimeUnregistered ==
  /\ (ops = 0 => Mirrors(store))
  /\ [][(/\ Mirrors(store) /\ last'.op # "registerModulePreserve"
         /\ ~UnregistersStatic) => Mirrors(store')]_vars

\* C30's failure: the first call on the store was unregisterModule(['counter']);
\* counter is registered, root state has no key counter, and the local
\* state of counter is undefined
C30_ModuleWithoutState ==
  /\ last.op = "unregisterModule" /\ last.path = <<"counter">> /\ ops = 1
  /\ store.thrown = NoErr
  /\ hasModule(store, <<"counter">>).value
  /\ <<"counter">> \notin DOMAIN store._vm.state
  /\ getNestedState(store._vm.state, <<"counter">>).kind = "undefined"

\* the trees are alike after a registerModule and an unregisterModule of a
\* runtime module, a hotUpdate and a commit
C30_Reached ==
  /\ last.op = "commit" /\ store.thrown = NoErr /\ ops = 4
  /\ store._modules.nextId = 5
  /\ ~hasModule(store, <<"x">>).value
  /\ store._modules.mods[<<"counter">>].raw.getters = <<Fn(<<"double">>, "plus20")>>
  /\ Mirrors(store)

(***************************************************************************)
(* C31: the namespace-to-module index and the tree                         *)
(***************************************************************************)
\* the module with identity id is in the tree of S, is namespaced and has
\* the namespace ns
InTreeNamespaced(S, ns, id) ==
  \E p \in DOMAIN S._modules.mods :
    /\ S._modules.mods[p].id = id
    /\ S._modules.mods[p].raw.namespaced
    /\ getNamespace(S._modules, p).ns = ns

\* store._modulesNamespaceMap has exactly the namespaces of the namespaced
\* modules of the tree, each mapped to a module of the tree that has it
IndexOfTree(S) ==
  /\ DOMAIN S._modulesNamespaceMap =
       {getNamespace(S._modules, p).ns :
          p \in {q \in DOMAIN S._modules.mods : S._modules.mods[q].raw.namespaced}}
  /\ \A ns \in DOMAIN S._modulesNamespaceMap :
       InTreeNamespaced(S, ns, S._modulesNamespaceMap[ns])

\* the index that the install walk of the module at path and of the modules
\* below it writes, starting from an empty one
WalkIndex(S, path) ==
  installModule([S EXCEPT !._actions = <<>>, !._mutations = <<>>,
                          !._wrappedGetters = <<>>, !._modulesNamespaceMap = <<>>],
                path, TRUE)._modulesNamespaceMap

\* the entries are of the modules installed last: after a call that resets
\* the store those of the walk of the whole tree, after a registerModule
\* those of the walk of the registered module for the namespaces it has
InstalledLast(S) ==
  /\ last.op \in {"unregisterModule", "hotUpdate"} =>
       S._modulesNamespaceMap = WalkIndex(S, <<>>)
  /\ last.op = "registerModule" =>
       \A ns \in DOMAIN WalkIndex(S, last.path) :
         /\ ns \in DOMAIN S._modulesNamespaceMap
         /\ S._modulesNamespaceMap[ns] = WalkIndex(S, last.path)[ns]

\* C31: after any sequence of registerModule, unregisterModule and
\* hotUpdate, the namespace-to-module index holds exactly the namespaces of
\* the namespaced modules currently in the tree, each mapped to a module
\* that is currently in the tree; where two modules of the tree share a
\* namespace, the entry is the one installed last.
C31_IndexMatchesTree ==
  /\ IndexOfTree(store)
  /\ store.thrown = NoErr => InstalledLast(store)

\* what of C31 the code keeps: the index is that of the tree after every
\* unregisterModule and hotUpdate that returns, it stays that of the tree
\* through a registerModule on a path that was free, and after every
\* registerModule the namespaces of the registered modules are mapped to
\* the ones installed last
C31_WhereNothingReplaced ==
  /\ [](store.thrown = NoErr => InstalledLast(store))
  /\ [][/\ (last'.op \in {"unregisterModule", "hotUpdate"} /\ store'.thrown = NoErr)
             => IndexOfTree(store')
        /\ (/\ last'.op = "registerModule" /\ store'.thrown = NoErr
            /\ last'.path \notin DOMAIN store._modules.mods
            /\ IndexOfTree(store)) => IndexOfTree(store')]_vars

\* C31's failure: registerModule put a module in the place of b, whose
\* child c was namespaced; c is no longer in the tree and the index still
\* maps its namespace to it
C31_StaleNamespace ==
  /\ last.op = "registerModule" /\ last.path = <<"a", "b">> /\ store.thrown = NoErr
  /\ <<"a", "b", "c">> \notin DOMAIN store._modules.mods
  /\ \E ns \in DOMAIN store._modulesNamespaceMap :
       /\ Len(ns) >= 2 /\ ns[Len(ns) - 1] = "c"
       /\ \A p \in DOMAIN store._modules.mods :
            store._modules.mods[p].id # store._modulesNamespaceMap[ns]

\* the case the code keeps: two modules d of the tree have the namespace
\* d/, and the index has the one registered last, which a walk of the tree
\* installs first
C31_SharedNamespace ==
  /\ last.op = "registerModule" /\ last.path = <<"a", "d">> /\ store.thrown = NoErr
  /\ <<"d">> \in DOMAIN store._modules.mods
  /\ getNamespace(store._modules, <<"d">>).ns = <<"d", "/">>
  /\ getNamespace(store._modules, <<"a", "d">>).ns = <<"d", "/">>
  /\ store._modules.mods[<<"d">>].raw.namespaced
  /\ store._modulesNamespaceMap[<<"d", "/">>] = store._modules.mods[<<"a", "d">>].id
  /\ WalkIndex(store, <<>>)[<<"d", "/">>] = store._modules.mods[<<"d">>].id

(***************************************************************************)
(* SpecInstall: modules are registered on the store of DeclRoot whose      *)
(* declarations collide with the state or do not pass the validation of a  *)
(* development build: one has a state field under the key of one of its    *)
(* modules, one is registered where a module is, one has a handler that is *)
(* not callable and one a module with such a handler; the last two are     *)
(* given to hotUpdate too                                                  *)
(***************************************************************************)
MaxOpsInstall == 3

\* a module whose declared state has the field k, an object, and which
\* declares a module under the same key k and a module j
DeclK ==
  Raw(FALSE, (<<>> :> Obj("h", 0)) @@ (<<"k">> :> Obj("field", 7)),
      <<>>, <<>>, <<>>, <<Sub("k", DeclX), Sub("j", DeclG)>>)

\* a declaration that does not pass assertRawModule: its own mutation bad
\* is not callable, or (nested) its own maps are valid and the action bad
\* of its module m is not callable
DeclInvalid(nested) ==
  Raw(FALSE, Leaf("v", 0),
      <<Fn(<<"bad">>, IF nested THEN "increment" ELSE NotCallable)>>, <<>>, <<>>,
      IF nested
      THEN <<Sub("m", Raw(FALSE, Leaf("vm", 0), <<>>,
                          <<Act(<<"bad">>, NotCallable, FALSE)>>, <<>>, <<>>))>>
      ELSE <<>>)

NextInstall ==
  /\ ops < MaxOpsInstall
  /\ \/ RegisterModule(<<"h">>, DeclK, FALSE)
     \/ \E decl \in {DeclX, DeclG} : RegisterModule(<<"x">>, decl, FALSE)
     \/ RegisterModule(<<"v">>, DeclInvalid(FALSE), FALSE)
     \/ RegisterModule(<<"w">>, DeclInvalid(TRUE), FALSE)
     \/ \E nested \in BOOLEAN : HotUpdate(DeclInvalid(nested))
     \/ \E path \in {<<"h">>, <<"w">>} : UnregisterModule(path)
     \/ Commit(Call(Increment, "p"))

SpecInstall == InitTree /\ [][NextInstall]_vars

(***************************************************************************)
(* C32: a module installed under a key that the parent state has           *)
(***************************************************************************)
\* the object at q of the state tree with all below it, as a tree of its own
SubState(state, q) ==
  [x \in {SliceFrom(r, Len(q)) : r \in {r \in DOMAIN state : IsPrefix(q, r)}} |->
     state[q \o x]]

\* the paths of the modules that the registerModule just made installed
InstalledBy(T) == {last'.path} \cup Below(T._modules, last'.path)

\* what the parent state object has under the key of the module at p when
\* the install walk comes to p: for the registered module what the state of
\* the store had, for a module below it what the declared state of its
\* parent has
Already(S, T, p) ==
  IF p = last'.path THEN SubState(S._vm.state, p)
  ELSE SubState(T._modules.mods[Butlast(p)].state, <<Lastof(p)>>)

\* the key of the module at p exists on the parent state object
Collides(S, T, p) == DOMAIN Already(S, T, p) # {}

\* the handlers of the module at p are registered and, without a collision,
\* its declared state is under its key
InstalledAt(S, T, p) ==
  /\ T._modules.mods[p].context.installed
  /\ \A i \in 1..Len(T._modules.mods[p].raw.mutations) :
       \E type \in DOMAIN T._mutations : \E j \in 1..Len(T._mutations[type]) :
         /\ T._mutations[type][j].id = T._modules.mods[p].id
         /\ T._mutations[type][j].fn = T._modules.mods[p].raw.mutations[i].fn
  /\ ~Collides(S, T, p) =>
       \A x \in DOMAIN T._modules.mods[p].state :
         /\ p \o x \in DOMAIN T._vm.state
         /\ Len(x) = 0 => T._vm.state[p \o x] = T._modules.mods[p].state[x]

\* a registerModule without preserveState returned
Installs ==
  /\ last'.op = "registerModule" /\ store'.thrown = NoErr

\* C32: when a module is installed under a key that already exists on the
\* parent state object, the conflicting registration is rejected: the state
\* value already under that key is kept and is not replaced by the module's
\* state, and the other modules of the tree are still installed.
C32_CollisionRejected ==
  [][Installs =>
       \A p \in InstalledBy(store') :
         /\ Collides(store, store', p) =>
              SubState(store'._vm.state, p) = Already(store, store', p)
         /\ InstalledAt(store, store', p)]_vars

\* what the code does instead: the module's state replaces the value under
\* the key, and every module of the declaration is installed
C32_ModuleStateWins ==
  [][Installs =>
       \A p \in InstalledBy(store') :
         /\ store'._vm.state[p] = store'._modules.mods[p].state[<<>>]
         /\ InstalledAt(store, store', p)]_vars

\* C32's failure: the declared state of h had the object {name: field,
\* count: 7} under k; after the registration the state of the module k is
\* there, and the module j is installed next to it
C32_FieldReplaced ==
  /\ last.op = "registerModule" /\ last.path = <<"h">> /\ store.thrown = NoErr
  /\ store._modules.mods[<<"h">>].state[<<"k">>] = Obj("field", 7)
  /\ store._vm.state[<<"h", "k">>] = Obj("x", 0)
  /\ store._vm.state[<<"h", "j">>] = Obj("g", 0)
  /\ <<"incX">> \in DOMAIN store._mutations
  /\ <<"incG">> \in DOMAIN store._mutations

\* the same at the registered path: the state had x, the state of the
\* module registered there before, and the second registration at x has
\* put the declared state of the new module in its place
C32_StateReplaced ==
  /\ last.op = "registerModule" /\ last.path = <<"x">> /\ store.thrown = NoErr
  /\ store._modules.mods[<<"x">>].raw.mutations = <<Fn(<<"incG">>, "increment")>>
  /\ <<"incX">> \in DOMAIN store._mutations
  /\ store._vm.state[<<"x">>] = Obj("g", 0)

(***************************************************************************)
(* C33: a registerModule or hotUpdate that fails declaration validation    *)
(***************************************************************************)
\* the call just made is a registerModule or a hotUpdate that ended in the
\* failed assertion of assertRawModule
FailsValidation ==
  /\ last'.op \in {"registerModule", "registerModulePreserve", "hotUpdate"}
  /\ store'.thrown = "AssertionError"

\* the state tree, the registries and the namespace index of T are those of S
SameStateAndRegistries(S, T) ==
  /\ T._vm.state = S._vm.state
  /\ T._mutations = S._mutations
  /\ T._actions = S._actions
  /\ T._wrappedGetters = S._wrappedGetters
  /\ T.getters = S.getters
  /\ T._modulesNamespaceMap = S._modulesNamespaceMap

\* the module tree of T is that of S
SameTree(S, T) == T._modules.mods = S._modules.mods

\* the declaration that failed is itself the invalid one: its own maps hold
\* the handler that is not callable
TopLevelInvalid ==
  \/ last'.op = "registerModule" /\ last'.path = <<"v">>
  \/ last'.op = "hotUpdate" /\ ~assertRawModule(last'.call.payload.data)

\* C33: a registerModule or hotUpdate call that fails declaration
\* validation in debug mode (a getter or mutation that is not callable, an
\* action that is neither callable nor an object with a callable handler,
\* at any depth of the declaration) leaves the store as it was: the module
\* tree, the state tree and the registries are unchanged and consistent
\* with each other.
C33_FailedValidationKeepsStore ==
  [][FailsValidation =>
       /\ SameTree(store, store')
       /\ SameStateAndRegistries(store, store')
       /\ MatchesTree(Begin(store)) => MatchesTree(Begin(store'))
       /\ Mirrors(store) => Mirrors(store')]_vars

\* what of C33 the code keeps: a failed validation leaves the state tree
\* and the registries as they were, and the module tree too when the
\* handler that is not callable is in the maps of the declaration itself
C33_WhereTopLevelInvalid ==
  [][FailsValidation =>
       /\ SameStateAndRegistries(store, store')
       /\ TopLevelInvalid =>
            /\ SameTree(store, store')
            /\ MatchesTree(Begin(store)) => MatchesTree(Begin(store'))
            /\ Mirrors(store) => Mirrors(store')]_vars

\* C33's failure: registerModule(['w'], declaration) threw for the action
\* of the nested module m; w is in the module tree, m is not, the state has
\* no key w and no handler of w is registered
C33_HalfRegistered ==
  /\ last.op = "registerModule" /\ last.path = <<"w">>
  /\ store.thrown = "AssertionError"
  /\ hasModule(store, <<"w">>).value
  /\ ~hasModule(store, <<"w", "m">>).value
  /\ <<"w">> \notin DOMAIN store._vm.state
  /\ <<"bad">> \notin DOMAIN store._mutations

\* the same for hotUpdate: the root module has the mutations of the new
\* declaration, the registry still has the handlers of the old one
C33_HalfUpdated ==
  /\ last.op = "hotUpdate" /\ store.thrown = "AssertionError"
  /\ store._modules.mods[<<>>].raw.mutations = <<Fn(<<"bad">>, "increment")>>
  /\ <<"bad">> \notin DOMAIN store._mutations
  /\ Increment \in DOMAIN store._mutations

\* the case the code keeps: the declaration given to registerModule had the
\* mutation that is not callable in its own map, and nothing was registered
C33_Reached ==
  /\ last.op = "registerModule" /\ last.path = <<"v">>
  /\ store.thrown = "AssertionError"
  /\ ~hasModule(store, <<"v">>).value

(***************************************************************************)
(* SpecInterleave: commits and dispatches interleaved with the             *)
(* continuations of the dispatches, with handlers and subscribers that     *)
(* call back into the store (the handler of nested commits, the subscriber *)
(* sCommit commits), that throw, and with subscribers that are             *)
(* unsubscribed while a dispatch is pending, and with calls in object      *)
(* style.  The application makes at                                        *)
(* most MaxOpsInterleave steps before its last call; the continuations of  *)
(* the dispatches made run whenever they can.                              *)
(***************************************************************************)
MaxOpsInterleave == 3

NextInterleave ==
  \/ /\ ops < MaxOpsInterleave
     /\ \/ \E fn \in {"s1", "sCommit"} : Subscribe(fn, FALSE)
        \/ \E type \in {Increment, <<"nested">>, <<"later">>, <<"boom">>} :
             Commit(Call(type, "p"))
        \/ \E fn \in {"Obj", "Thrower"} : SubscribeAction(fn, FALSE)
        \/ \E c \in store.closures : Unsubscribe(c)
        \/ \E type \in {<<"get">>, <<"fail">>} : Dispatch(Call(type, "p"))
        \/ Commit(CallObj(Increment, "p"))
        \/ Dispatch(CallObj(<<"get">>, "p"))
  \/ \E k \in 1..Len(store.dispatches) :
       \E i \in 1..Len(store.dispatches[k].hs) : Settle(k, i)
  \/ \E k \in 1..Len(store.dispatches) : React(k)

SpecInterleave == InitSubscribe /\ [][NextInterleave]_vars

(***************************************************************************)
(* C34: mutation subscribers and the committing scope                      *)
(***************************************************************************)
\* every mutation subscriber that the call ran was called with
\* store._committing false
SubscribersOutsideScope(log) ==
  \A i \in 1..Len(log) : log[i].ev = "sub" => ~log[i].committing

\* C34: no mutation subscriber is ever invoked while a committing scope is
\* active: in every reachable state in which a mutation subscriber is
\* running the committing flag is false, also when a mutation handler or a
\* subscriber itself calls commit.
C34_SubscribersOutsideScope == SubscribersOutsideScope(store.log)

\* what of C34 the code keeps: in a call that begins with the flag false
\* (no handler has thrown before) the subscribers run with the flag false,
\* also those of a commit that a subscriber makes, unless the commit is one
\* that a mutation handler makes
C34_WhereNoHandlerCommits ==
  [][(~store._committing /\ last'.call.type # <<"nested">>) =>
       SubscribersOutsideScope(store'.log)]_vars

\* C34's failure: the handler of nested called commit('increment'), and
\* the subscriber s1 was called for increment while the scope of nested was
\* active, and for nested after it
C34_InsideHandlerScope ==
  /\ last.op = "commit" /\ last.call.type = <<"nested">> /\ store.thrown = NoErr
  /\ store._subscribers = <<"s1">>
  /\ Len(UserCalls({"sub"})) = 2
  /\ UserCalls({"sub"})[1].type = Increment /\ UserCalls({"sub"})[1].committing
  /\ UserCalls({"sub"})[2].type = <<"nested">> /\ ~UserCalls({"sub"})[2].committing

\* the same after a handler has thrown: the flag stayed true, and the
\* subscriber of the next commit was called with the flag true
C34_AfterHandlerThrew ==
  /\ last.op = "commit" /\ last.call.type = Increment /\ store.thrown = NoErr
  /\ store._subscribers = <<"s1">>
  /\ Len(UserCalls({"sub"})) = 1
  /\ UserCalls({"sub"})[1].committing

\* the case the code keeps: the subscriber sCommit committed increment from
\* inside the round of later, and was called for both with the flag false
C34_SubscriberCommitted ==
  /\ last.op = "commit" /\ last.call.type = <<"later">> /\ store.thrown = NoErr
  /\ store._subscribers = <<"sCommit">>
  /\ Len(UserCalls({"sub"})) = 2
  /\ UserCalls({"sub"})[1].type = <<"later">> /\ ~UserCalls({"sub"})[1].committing
  /\ UserCalls({"sub"})[2].type = Increment /\ ~UserCalls({"sub"})[2].committing
  /\ Len(UserCalls({"mutation"})) >= 2

(***************************************************************************)
(* C35: unsubscribing an action subscriber while a dispatch is pending     *)
(***************************************************************************)
\* the dispatches of S whose promise is not settled
PendingDispatches(S) ==
  {k \in 1..Len(S.dispatches) : S.dispatches[k].promise.st = "pending"}

\* the subscribers that the reaction just run has notified after or error
NotifiedAtReaction(log) ==
  {log[i].fn : i \in {j \in 1..Len(log) : log[j].ev \in {"after", "error"}}}

\* C35: unsubscribing an action subscriber while a dispatched action is
\* still pending does not cancel the action: its handlers run to completion
\* and the dispatch still settles, and the unsubscribed subscriber receives
\* no after or error notification for that dispatch.  The unsubscribe
\* leaves every dispatch as it is; the promise of a handler still settles
\* as the handler decides; the reaction settles the promise of the
\* dispatch with the result, and notifies subscribers of the list of that
\* moment only.
C35_UnsubscribeKeepsDispatch ==
  [][/\ last'.op = "unsubscribeAction" =>
          /\ store'.dispatches = store.dispatches
          /\ \A i \in 1..Len(store'._actionSubscribers) :
               store'._actionSubscribers[i] # [fn |-> last'.call.type[1], id |-> last'.path[1]]
     /\ last'.op = "settle" =>
          store'.dispatches[last'.path[1]].hs[last'.path[2]]
            = settlement(store.dispatches[last'.path[1]].fns[last'.path[2]])
     /\ last'.op = "react" =>
          /\ store'.dispatches[last'.path[1]].promise = store.dispatches[last'.path[1]].result
          /\ store'.dispatches[last'.path[1]].promise.st # "pending"
          /\ NotifiedAtReaction(store'.log) \subseteq
               {store._actionSubscribers[i].fn : i \in 1..Len(store._actionSubscribers)}]_vars

\* C35's case: Obj was unsubscribed while the dispatch of get, whose two
\* handlers have not settled, is pending; the dispatch is as it was
C35_Witness ==
  /\ last.op = "unsubscribeAction" /\ last.call.type = <<"Obj">>
  /\ store._actionSubscribers = <<>>
  /\ PendingDispatches(store) = {1}
  /\ store.dispatches[1].type = <<"get">>
  /\ store.dispatches[1].hs = <<Pending, Pending>>

\* and its end: the handlers of that dispatch have settled and the
\* reaction has resolved its promise with [1, 2], notifying nobody
C35_SettledAfterUnsubscribe ==
  /\ last.op = "react" /\ ops = 6
  /\ [list |-> "subscribeAction", fn |-> "Obj", id |-> 0] \in store.closures
  /\ store._actionSubscribers = <<>>
  /\ store.dispatches[1].type = <<"get">>
  /\ store.dispatches[1].promise.st = "fulfilled"
  /\ NotifiedAtReaction(store.log) = {}

(***************************************************************************)
(* C36: every dispatch settles.  SpecInterleaveFair is SpecInterleave with *)
(* the scheduling of the continuations: a promise of a handler that has    *)
(* not settled settles in the end (the handlers of the declaration all     *)
(* settle), and a reaction that is waiting on a settled promise runs (the  *)
(* microtask queue is drained).                                            *)
(***************************************************************************)
SpecInterleaveFair ==
  /\ SpecInterleave
  /\ WF_vars(\E k \in 1..Len(store.dispatches) :
               \E i \in 1..Len(store.dispatches[k].hs) : Settle(k, i))
  /\ WF_vars(\E k \in 1..Len(store.dispatches) : React(k))

\* the promise of the k-th dispatch that returned one is settled in the end
EventuallySettled(k) ==
  [](Len(store.dispatches) >= k =>
       <>(Len(store.dispatches) >= k /\ store.dispatches[k].promise.st # "pending"))

\* C36: every dispatch on a registered action type whose handlers all
\* eventually settle eventually settles its own awaitable, resolved or
\* rejected, under fair scheduling of continuations, whatever other
\* dispatches and commits are interleaved with it and whatever its
\* subscribers do; it never stays pending forever.
C36_DispatchSettles ==
  /\ [](DispatchedRegistered =>
          \E k \in 1..Len(store.dispatches) : store.ret = RetPromise(k))
  /\ \A k \in 1..MaxOpsInterleave : EventuallySettled(k)

\* what of C36 the code keeps: in a host that defines w the dispatch
\* returns a promise, and every promise that a dispatch returned is settled
\* in the end
C36_WhereWDefined ==
  /\ []((wDefined /\ DispatchedRegistered) =>
          \E k \in 1..Len(store.dispatches) : store.ret = RetPromise(k))
  /\ \A k \in 1..MaxOpsInterleave : EventuallySettled(k)

\* C36's failure: the dispatch of get, a registered type whose two
\* handlers resolve, threw and returned no promise that could settle
C36_NoAwaitable ==
  /\ DispatchedRegistered /\ last.call.type = <<"get">>
  /\ store.thrown = "ReferenceError"
  /\ store.ret = RetUndefined
  /\ store.dispatches = <<>>

\* the case the code keeps: two dispatches were made, the subscriber
\* Thrower threw in the reaction of the last, and both are settled, one of
\* them rejected
C36_AllSettled ==
  /\ Len(store.dispatches) = 2
  /\ \A k \in 1..2 : store.dispatches[k].promise.st # "pending"
  /\ \E k \in 1..2 : store.dispatches[k].promise.st = "rejected"
  /\ \E i \in 1..Len(store._actionSubscribers) : store._actionSubscribers[i].fn = "Thrower"
  /\ last.op = "react" /\ TimesCalled("error", "Thrower") + TimesCalled("after", "Thrower") = 1

(***************************************************************************)
(* C37: calls in object style.                                             *)
(***************************************************************************)
\* the call just made, with its type and its payload as positional arguments
AsPositional(type, payload) ==
  IF last'.op = "commit"
  THEN commit(Begin(store), Positional(type, payload, FALSE))
  ELSE dispatch(Begin(store), Positional(type, payload, FALSE))

\* the call just made passed an object {type, ...} as its first argument
ObjectStyleCall == last'.op \in {"commit", "dispatch"} /\ last'.call.obj

\* every handler and subscriber that the call has invoked for its type
\* received this payload
Received(S, payload) ==
  \A i \in 1..Len(S.log) :
    S.log[i].ev \in {"mutation", "action", "sub", "before"} => S.log[i].payload = payload

\* C37: object-style invocation is normalized to the positional one:
\* commit({type: T, ...P}) and dispatch({type: T, ...P}) have the same effect
\* as commit(T, P) and dispatch(T, P), so the handlers of T receive P as
\* payload and subscribers are notified with {type: T, payload: P}.
C37_SameAsPositional ==
  [][ObjectStyleCall =>
       /\ store' = AsPositional(last'.call.type, Payload(last'.call.payload.data))
       /\ Received(store', Payload(last'.call.payload.data))]_vars

\* C37 as amended: commit({type: T, ...P}) and dispatch({type: T, ...P}) have
\* the same effect as commit(T, O) and dispatch(T, O) where O is the whole
\* object {type: T, ...P}: the handlers of T that run receive O as payload
\* and the subscribers notified are notified with {type: T, payload: O}.
C37_WholeObjectAsPayload ==
  [][ObjectStyleCall =>
       /\ store' = AsPositional(last'.call.type, last'.call.payload)
       /\ Received(store', ObjectStyle(last'.call.type, last'.call.payload.data))]_vars

\* C37's case for commit: commit({type: 'increment', ...}) has run the
\* handlers of increment and notified the subscriber s1, each with the
\* object as payload
C37_ObjectCommitted ==
  /\ last.op = "commit" /\ last.call.obj /\ store.thrown = NoErr
  /\ store._subscribers = <<"s1">>
  /\ Len(UserCalls({"mutation"})) >= 1 /\ Len(UserCalls({"sub"})) = 1
  /\ Received(store, ObjectStyle(Increment, "p"))

\* C37's case for dispatch: dispatch({type: 'get', ...}) has notified the
\* before subscriber Obj and run the handlers of get, each with the object
\* as payload, and returned a promise
C37_ObjectDispatched ==
  /\ last.op = "dispatch" /\ last.call.obj /\ store.thrown = NoErr
  /\ Len(UserCalls({"before"})) = 1 /\ Len(UserCalls({"action"})) >= 1
  /\ Received(store, ObjectStyle(<<"get">>, "p"))
  /\ store.dispatches[store.ret.id].payload = ObjectStyle(<<"get">>, "p")

(***************************************************************************)
(* C38: exceptions of action subscribers.                                  *)
(***************************************************************************)
\* an action subscriber threw in the call or continuation just run
SubscriberThrew(log) ==
  \E i \in 1..Len(log) : log[i].fn = "Thrower" /\ log[i].ev \in {"before", "after", "error"}

\* the store with no throwing action subscriber subscribed
WithoutThrowers(S) ==
  [S EXCEPT !._actionSubscribers = SelectSeq(@, LAMBDA sub : sub.fn # "Thrower")]

\* the outcome of a call or continuation: what it throws and returns, the
\* state, and the promises of the handlers and of the dispatches
Outcome(S) ==
  [thrown |-> S.thrown, ret |-> S.ret, state |-> S._vm.state,
   dispatches |-> [k \in 1..Len(S.dispatches) |->
                     [hs |-> S.dispatches[k].hs, result |-> S.dispatches[k].result,
                      promise |-> S.dispatches[k].promise]]]

\* C38: an exception thrown by a before, after or error action subscriber
\* never reaches the caller of dispatch and never changes the outcome: the
\* action handlers still run, and the dispatch settles with exactly the
\* result or the error of the handlers.  A dispatch in which a before
\* subscriber threw returns normally, has called every handler of the type
\* and has the outcome it has without the throwing subscriber; a reaction in
\* which an after or error subscriber threw settles the promise of the
\* dispatch to the result of the handlers, as it does without that
\* subscriber.
C38_SubscriberErrorsIsolated ==
  [][SubscriberThrew(store'.log) =>
       /\ store'.thrown = NoErr
       /\ last'.op = "dispatch" =>
            /\ Len(SelectSeq(store'.log, LAMBDA e : e.ev = "action"))
                 = Len(store._actions[last'.call.type])
            /\ store'.ret = RetPromise(Len(store'.dispatches))
            /\ Outcome(store') = Outcome(dispatch(WithoutThrowers(Begin(store)), last'.call))
       /\ last'.op = "react" =>
            /\ store'.dispatches[last'.path[1]].promise = store.dispatches[last'.path[1]].result
            /\ Outcome(store') = Outcome(react(WithoutThrowers(Begin(store)), last'.path[1]))]_vars

\* C38's case before the handlers: Thrower threw in the before round of
\* dispatch('get') and the call returned a promise after both handlers of
\* get had run
C38_ThrewBefore ==
  /\ last.op = "dispatch" /\ last.call.type = <<"get">>
  /\ TimesCalled("before", "Thrower") = 1
  /\ Len(UserCalls({"action"})) = Len(store._actions[<<"get">>])
  /\ store.thrown = NoErr /\ store.ret = RetPromise(Len(store.dispatches))

\* C38's case after the handlers: Thrower threw in the error round of a
\* dispatch whose handler had rejected, and the promise of the dispatch is
\* rejected with the error of the handler
C38_ThrewInErrorRound ==
  /\ last.op = "react" /\ TimesCalled("error", "Thrower") = 1
  /\ store.thrown = NoErr
  /\ store.dispatches[last.path[1]].promise = Rejected("Failed")

\* C38's case after the handlers: Thrower threw in the after round, and the
\* promise of the dispatch is fulfilled with the result of the handlers
C38_ThrewInAfterRound ==
  /\ last.op = "react" /\ TimesCalled("after", "Thrower") = 1
  /\ store.thrown = NoErr
  /\ store.dispatches[last.path[1]].promise.st = "fulfilled"
  /\ store.dispatches[last.path[1]].promise = store.dispatches[last.path[1]].result

(***************************************************************************)
(* C39: the getter that serves a key declared twice.                       *)
(***************************************************************************)
\* the ids of the modules of the tree that declare a getter whose
\* fully-namespaced key is type
Declarers(S, type) ==
  {S._modules.mods[p].id :
     p \in {q \in DOMAIN S._modules.mods :
              \E i \in 1..Len(S._modules.mods[q].raw.getters) :
                getNamespace(S._modules, q).ns \o S._modules.mods[q].raw.getters[i].key = type}}

\* the call just made rebuilt the registries: a hotUpdate, or an
\* unregisterModule, that returned
Rebuilt == last'.op \in {"hotUpdate", "unregisterModule"} /\ store'.thrown = NoErr

\* type is served before and after the step, and the same two or more
\* modules of the tree declare it before and after
DeclaredTwiceAcross(type) ==
  /\ type \in DOMAIN store._wrappedGetters /\ type \in DOMAIN store'._wrappedGetters
  /\ Cardinality(Declarers(store, type)) >= 2
  /\ Declarers(store', type) = Declarers(store, type)

\* C39: when two modules of the tree declare a getter under the same
\* fully-namespaced key, the definition that serves store.getters[key] stays
\* the same across every later registry rebuild (hotUpdate, or
\* unregisterModule of another module) for as long as both modules stay in
\* the tree: the rebuild leaves the key with the module that served it.
C39_DuplicateGetterStable ==
  [][Rebuilt =>
       \A type \in DOMAIN store._wrappedGetters :
         DeclaredTwiceAcross(type) =>
           store'._wrappedGetters[type].id = store._wrappedGetters[type].id]_vars

\* the part of C39 that the code keeps: a rebuild of registries that are
\* those of a walk of the tree leaves every key declared twice with the
\* module that served it
C39_WhereInWalkOrder ==
  [][(Rebuilt /\ store._wrappedGetters = FreshWalk(Begin(store))._wrappedGetters) =>
       \A type \in DOMAIN store._wrappedGetters :
         DeclaredTwiceAcross(type) =>
           store'._wrappedGetters[type].id = store._wrappedGetters[type].id]_vars

\* C39's failure: x was registered before m/x, both declare the getter
\* fresh under the key 'fresh' and x served it; after the hotUpdate the
\* walk of the tree, which reaches m/x before x, has given the key to m/x
C39_GetterSwitched ==
  /\ last.op = "hotUpdate" /\ store.thrown = NoErr
  /\ {<<"x">>, <<"m", "x">>} \subseteq DOMAIN store._modules.mods
  /\ store._modules.mods[<<"x">>].id < store._modules.mods[<<"m", "x">>].id
  /\ Declarers(store, <<"fresh">>) =
       {store._modules.mods[<<"x">>].id, store._modules.mods[<<"m", "x">>].id}
  /\ store._wrappedGetters[<<"fresh">>].id = store._modules.mods[<<"m", "x">>].id

\* C39's case where the code keeps it: root and m both declare count, and
\* after a rebuild the key is still served by the root module
C39_RootKeepsCount ==
  /\ last.op \in {"hotUpdate", "unregisterModule"} /\ store.thrown = NoErr
  /\ Cardinality(Declarers(store, <<"count">>)) >= 2
  /\ store._wrappedGetters[<<"count">>].id = store._modules.mods[<<>>].id

=============================================================================
